---- MODULE Spec2Model ----
(***************************************************************************)
(* Model of the EMLE electrostatic-embedding engine (emle/models.py) and   *)
(* its training helpers.                                                   *)
(*                                                                         *)
(* Numbers.  A floating-point value is modelled by an exact rational       *)
(* <<n, d>> in lowest terms with d > 0; <<0, 0>> stands for a non-finite   *)
(* value (nan or inf), which every operation propagates.  Quantities that  *)
(* the code obtains through erf, exp or sqrt are not evaluated: they enter *)
(* as inputs of the operation that consumes them, or are kept as terms.    *)
(*                                                                         *)
(* Feature vectors are measured in units of sqrt(sigma), sigma = 1e-3      *)
(* being the GPR regulariser of models.py:176.  The kernel (a.b)^2 is      *)
(* quartic in the features, so in these units sigma^2 * I is the identity  *)
(* matrix and a vector of Euclidean length 1 has squared length 1/sigma    *)
(* = UnitNorm2.  A feature vector is a record [v, n2] denoting v/sqrt(n2). *)
(***************************************************************************)
EXTENDS Integers, Sequences, FiniteSets, TLC

VARIABLES
    kind,        \* class of the engine object: "EMLE" or "ANI2xEMLE"
    alpha_mode,  \* self._alpha_mode
    buffers,     \* the registered buffers of the engine (register_buffer)
    aev_attr,    \* self._ani2x.aev_computer._aev, the attribute the hook writes
    pc,          \* per caller: position of its forward call
    args,        \* per caller: the arguments of its forward call
    frame,       \* per caller: locals of a call that is past the ANI2x model
    ret,         \* per caller: what its last forward call returned or raised
    reused,      \* history: the latest call began on an engine that had served others
    mat,         \* the parameter bundle handed to the constructor (loadmat)
    built,       \* the GPR buffers the constructor derived from mat
    gpr_in,      \* arguments of the last _gpr call
    gpr_out,     \* result of the last _gpr call
    qeq_in,      \* arguments of the last _get_q call
    qeq_out,     \* result of the last _get_q call
    thole_in,    \* arguments of the last _get_A_thole call
    thole_out,   \* its r_data and the matrix it returned
    energy_in,   \* geometry, charges and solver results handed to the energy step
    energy_out,  \* the static and the induced energy computed from them
    heap,        \* the engine objects that exist, by identity
    last,        \* the last constructor or conversion call and what it gave
    aev_in,      \* arguments of the last preparation of features
    aev_out,     \* the features it returned, or what it raised
    sander,      \* the sander module: the sessions that are set up
    calculators, \* the SanderCalculator objects constructed so far
    sander_log   \* history: the calls of sander.setup and sander.cleanup

engine_vars == <<kind, alpha_mode, buffers, aev_attr, pc, args, frame, ret, reused>>
gpr_vars == <<mat, built, gpr_in, gpr_out>>
qeq_vars == <<qeq_in, qeq_out>>
thole_vars == <<thole_in, thole_out>>
energy_vars == <<energy_in, energy_out>>
object_vars == <<heap, last>>
aev_vars == <<aev_in, aev_out>>
sander_vars == <<sander, calculators, sander_log>>
vars ==
    <<engine_vars, gpr_vars, qeq_vars, thole_vars, energy_vars, object_vars, aev_vars,
      sander_vars>>

(***************************************************************************)
(* Bounds of the model.                                                    *)
(***************************************************************************)
MaxAtoms == 2
MaxNRef == 2

(***************************************************************************)
(* Arithmetic on integers, rationals and vectors.                          *)
(***************************************************************************)
Abs(x) == IF x < 0 THEN -x ELSE x

RECURSIVE GCD(_, _)
GCD(a, b) == IF b = 0 THEN a ELSE GCD(b, a % b)

NaN == <<0, 0>>

Rat(n, d) ==
    IF d = 0 THEN NaN
    ELSE LET g == GCD(Abs(n), Abs(d))
             sg == IF d < 0 THEN -1 ELSE 1
         IN <<(sg * n) \div g, (sg * d) \div g>>

FromInt(n) == <<n, 1>>

IsFinite(a) == a[2] # 0

RAdd(a, b) ==
    IF ~IsFinite(a) \/ ~IsFinite(b) THEN NaN
    ELSE LET g == GCD(a[2], b[2])
         IN Rat(a[1] * (b[2] \div g) + b[1] * (a[2] \div g), (a[2] \div g) * b[2])

RNeg(a) == <<-a[1], a[2]>>

RSub(a, b) == RAdd(a, RNeg(b))

RMul(a, b) ==
    IF ~IsFinite(a) \/ ~IsFinite(b) THEN NaN
    ELSE LET g == GCD(Abs(a[1]), b[2])
             h == GCD(Abs(b[1]), a[2])
         IN Rat((a[1] \div g) * (b[1] \div h), (a[2] \div h) * (b[2] \div g))

RDiv(a, b) ==
    IF ~IsFinite(a) \/ ~IsFinite(b) THEN NaN
    ELSE IF b[1] = 0 THEN NaN
    ELSE RMul(a, IF b[1] < 0 THEN <<-b[2], -b[1]>> ELSE <<b[2], b[1]>>)

RECURSIVE SumTo(_, _)
SumTo(f, n) == IF n = 0 THEN 0 ELSE f[n] + SumTo(f, n - 1)

Sum(f) == SumTo(f, Len(f))

RECURSIVE RSumTo(_, _)
RSumTo(f, n) == IF n = 0 THEN FromInt(0) ELSE RAdd(f[n], RSumTo(f, n - 1))

RSum(f) == RSumTo(f, Len(f))

Dot(a, b) == Sum([i \in 1..Len(a) |-> a[i] * b[i]])

\* The whole leading dimension, whatever n is.
TakeAll(seq, n) == seq

\* tensor[:n] on the leading dimension
Take(seq, n) == [i \in 1..(IF n < Len(seq) THEN n ELSE Len(seq)) |-> seq[i]]

\* Positions of the true entries of a boolean mask, ascending (zid == i).
RECURSIVE MaskIndices(_, _)
MaskIndices(mask, n) ==
    IF n = 0 THEN <<>>
    ELSE IF mask[n] THEN Append(MaskIndices(mask, n - 1), n)
         ELSE MaskIndices(mask, n - 1)

\* tensor[mask]: the entries at the true positions, in ascending order
Select(seq, mask) ==
    LET idx == MaskIndices(mask, Len(mask))
    IN [p \in 1..Len(idx) |-> seq[idx[p]]]

\* tensor[mask] = values: the p-th true position receives the p-th value
Scatter(seq, mask, values) ==
    LET idx == MaskIndices(mask, Len(mask))
    IN [i \in 1..Len(seq) |->
           IF mask[i] THEN values[CHOOSE p \in 1..Len(idx) : idx[p] = i]
           ELSE seq[i]]

\* tensor[i] for a 0-based index i; a negative index counts from the end.
InRange(seq, i) == i >= -Len(seq) /\ i < Len(seq)

At(seq, i) == IF i >= 0 THEN seq[i + 1] ELSE seq[Len(seq) + i + 1]

(***************************************************************************)
(* Dense linear algebra (torch.linalg), exact.                             *)
(***************************************************************************)
Minor(M, r, c) ==
    [i \in 1..(Len(M) - 1) |->
        [j \in 1..(Len(M) - 1) |->
            M[IF i < r THEN i ELSE i + 1][IF j < c THEN j ELSE j + 1]]]

RECURSIVE Det(_)
Det(M) ==
    IF Len(M) = 0 THEN 1
    ELSE IF Len(M) = 1 THEN M[1][1]
    ELSE Sum([j \in 1..Len(M) |->
                 (IF j % 2 = 1 THEN 1 ELSE -1) * M[1][j] * Det(Minor(M, 1, j))])

Cofactor(M, i, j) ==
    (IF (i + j) % 2 = 0 THEN 1 ELSE -1) * Det(Minor(M, i, j))

\* torch.linalg.inv of an integer matrix: raises on a singular matrix.
linalg_inv(M) ==
    IF Det(M) = 0 THEN [status |-> "LinAlgError"]
    ELSE [status |-> "ok",
          value |-> [i \in 1..Len(M) |->
                        [j \in 1..Len(M) |-> Rat(Cofactor(M, j, i), Det(M))]]]

\* M with column c replaced by the vector b
ReplaceColumn(M, c, b) ==
    [i \in 1..Len(M) |-> [j \in 1..Len(M) |-> IF j = c THEN b[i] ELSE M[i][j]]]

\* torch.linalg.solve(A, b) for integer A and b: the x with A x = b, by
\* Cramer's rule; raises on a singular matrix.
linalg_solve(A, b) ==
    IF Det(A) = 0 THEN [status |-> "LinAlgError"]
    ELSE [status |-> "ok",
          value |-> [i \in 1..Len(A) |-> Rat(Det(ReplaceColumn(A, i, b)), Det(A))]]

(***************************************************************************)
(* Tensors are nested sequences; a loaded array carries its rank.          *)
(***************************************************************************)
RECURSIVE Shape(_, _)
Shape(t, rank) ==
    IF rank = 0 THEN <<>> ELSE <<Len(t)>> \o Shape(t[1], rank - 1)

\* Drops every dimension of size 1 (numpy/torch squeeze).
RECURSIVE Squeeze(_, _)
Squeeze(t, rank) ==
    IF rank = 0 THEN t
    ELSE IF Len(t) = 1 THEN Squeeze(t[1], rank - 1)
    ELSE [i \in 1..Len(t) |-> Squeeze(t[i], rank - 1)]

SqueezedRank(t, rank) ==
    Cardinality({d \in 1..rank : Shape(t, rank)[d] # 1})

Array(t, rank) == [rank |-> SqueezedRank(t, rank), data |-> Squeeze(t, rank)]

(***************************************************************************)
(* Species table and parameter bundle (EMLE.__init__).                     *)
(***************************************************************************)
species == <<1, 6, 7, 8, 16>>

NSpecies == Len(species)

\* species_map = full(max(species) + 1, -1); species_map[s] = i
species_map ==
    [z1 \in 1..(species[NSpecies] + 1) |->
        IF \E i \in 1..NSpecies : species[i] = z1 - 1
        THEN (CHOOSE i \in 1..NSpecies : species[i] = z1 - 1) - 1
        ELSE -1]

\* Squared length of a vector of Euclidean norm 1, in units of sqrt(sigma).
UnitNorm2 == 1000

\* scipy.io.loadmat(model, squeeze_me=True): every array loses its unit
\* dimensions.  file holds the arrays with the shapes the training writes:
\* ref_aev (N_Z, MAX_N_REF, N_FEAT), s_ref, chi_ref, sqrtk_ref
\* (N_Z, MAX_N_REF), n_ref, q_core, k_Z (N_Z,), aev_mask (N_AEV,).
loadmat(file) ==
    [aev_mask |-> file.aev_mask,
     q_core |-> file.q_core,
     a_QEq |-> file.a_QEq,
     a_Thole |-> file.a_Thole,
     k_Z |-> file.k_Z,
     total_charge |-> file.total_charge,
     sqrtk_ref |-> Array(file.sqrtk_ref, 2),
     ref_aev |-> Array(file.ref_aev, 3),
     s_ref |-> Array(file.s_ref, 2),
     chi_ref |-> Array(file.chi_ref, 2),
     n_ref |-> file.n_ref]

\* K = (ref_features @ ref_features.swapaxes(1, 2)) ** 2, per species and
\* over all MAX_N_REF rows; inv(K + sigma**2 * eye(n)).
\* ref_features.shape[1] is n; the regulariser is the identity in the
\* model's units.
_get_Kinv(ref_features) ==
    [z \in 1..Len(ref_features) |->
        LET R == ref_features[z]
            n == Len(R)
            K == [i \in 1..n |-> [j \in 1..n |-> Dot(R[i], R[j]) * Dot(R[i], R[j])]]
        IN linalg_inv([i \in 1..n |-> [j \in 1..n |->
                          K[i][j] + (IF i = j THEN 1 ELSE 0)]])]

\* ref_mean = torch.sum(ref_values, dim=1) / n_ref
\* ref_shifted = ref_values - ref_mean[:, None]
\* c = (Kinv @ ref_shifted[:, :, None]).squeeze()
gpr_coefficients(Kinv, ref_values, n_ref) ==
    LET ref_mean == [z \in 1..Len(ref_values) |->
                        Rat(Sum(ref_values[z]), n_ref[z])]
        ref_shifted == [z \in 1..Len(ref_values) |->
                           [j \in 1..Len(ref_values[z]) |->
                               RSub(FromInt(ref_values[z][j]), ref_mean[z])]]
        prod == [z \in 1..Len(ref_values) |->
                    [i \in 1..Len(Kinv[z].value) |->
                        <<RSum([j \in 1..Len(Kinv[z].value) |->
                                   RMul(Kinv[z].value[i][j], ref_shifted[z][j])])>>]]
    IN [ref_mean |-> ref_mean, c |-> Array(prod, 3)]

\* EMLE.__init__ from the loaded parameters on: the registered buffers, or
\* the exception the constructor raises.
EMLE_init(mode, file) ==
    LET params == loadmat(file)
        ref_features == params.ref_aev
        k == IF mode = "species" THEN params.k_Z ELSE params.sqrtk_ref.data
    IN IF ref_features.rank # 3
       THEN [status |-> "IndexError"]   \* swapaxes(1, 2) in _get_Kinv
       ELSE LET Kinv == _get_Kinv(ref_features.data)
                gs == gpr_coefficients(Kinv, params.s_ref.data, params.n_ref)
                gchi == gpr_coefficients(Kinv, params.chi_ref.data, params.n_ref)
                gk == IF mode = "reference"
                      THEN gpr_coefficients(Kinv, k, params.n_ref)
                      ELSE [ref_mean |-> <<>>, c |-> [rank |-> 1, data |-> <<>>]]
            IN IF \E z \in 1..Len(Kinv) : Kinv[z].status # "ok"
               THEN [status |-> "LinAlgError"]
               ELSE [status |-> "ok",
                     _species_map |-> species_map,
                     _aev_mask |-> params.aev_mask,
                     _q_core |-> params.q_core,
                     _a_QEq |-> params.a_QEq,
                     _a_Thole |-> params.a_Thole,
                     _k |-> k,
                     _q_total |-> params.total_charge,
                     _ref_features |-> ref_features.data,
                     _n_ref |-> params.n_ref,
                     _ref_values_s |-> params.s_ref.data,
                     _ref_values_chi |-> params.chi_ref.data,
                     _ref_mean_s |-> gs.ref_mean,
                     _ref_mean_chi |-> gchi.ref_mean,
                     _c_s |-> gs.c,
                     _c_chi |-> gchi.c,
                     _ref_mean_k |-> gk.ref_mean,
                     _c_k |-> gk.c]

(***************************************************************************)
(* GPR prediction (EMLE._gpr).                                             *)
(***************************************************************************)
\* One entry of (ref_features_z @ mol_features_z) ** 2 for the reference
\* row ref and the feature vector f = v / sqrt(n2).
aev_kernel(ref, f) ==
    RDiv(FromInt(Dot(ref, f.v) * Dot(ref, f.v)), f.n2)

\* One iteration of the loop of _gpr: the values K_mol_ref2 @ c[i, :n_ref] +
\* ref_mean[i] of the atoms of species i - 1, in the order of the atoms.
gpr_species(self, mol_features, ref_mean, c, zid, i) ==
    LET n_ref == self._n_ref[i]
        ref_features_z == Take(self._ref_features[i], n_ref)
        mol_features_z == Select(mol_features, [a \in 1..Len(zid) |-> zid[a] = i - 1])
        K_mol_ref2 == [a \in 1..Len(mol_features_z) |->
                          [j \in 1..Len(ref_features_z) |->
                              aev_kernel(ref_features_z[j], mol_features_z[a])]]
        c_z == Take(c.data[i], n_ref)
    IN [a \in 1..Len(mol_features_z) |->
           RAdd(RSum([j \in 1..Len(c_z) |-> RMul(K_mol_ref2[a][j], c_z[j])]),
                ref_mean[i])]

\* A loop that stores the values of each species one after the other, in
\* the order of the species and not at the positions of their atoms.
RECURSIVE gpr_loop_by_species(_, _, _, _, _, _)
gpr_loop_by_species(self, mol_features, ref_mean, c, zid, i) ==
    IF i = 0 THEN [a \in 1..Len(zid) |-> FromInt(0)]
    ELSE LET result == gpr_loop_by_species(self, mol_features, ref_mean, c, zid, i - 1)
             values == gpr_species(self, mol_features, ref_mean, c, zid, i)
             before == Cardinality({a \in 1..Len(zid) : zid[a] >= 0 /\ zid[a] < i - 1})
         IN [a \in 1..Len(zid) |->
                IF a > before /\ a <= before + Len(values) THEN values[a - before]
                ELSE result[a]]

\* The loop of _gpr after its first i iterations (species 0 .. i-1).
RECURSIVE gpr_loop(_, _, _, _, _, _)
gpr_loop(self, mol_features, ref_mean, c, zid, i) ==
    IF i = 0 THEN [a \in 1..Len(zid) |-> FromInt(0)]
    ELSE Scatter(gpr_loop(self, mol_features, ref_mean, c, zid, i - 1),
                 [a \in 1..Len(zid) |-> zid[a] = i - 1],
                 gpr_species(self, mol_features, ref_mean, c, zid, i))

\* _gpr(mol_features, ref_mean, c, zid): the predicted value per atom, or
\* the exception raised by c[i, :n_ref] when c is not two-dimensional or by
\* mol_features[zid == i] when the mask and the features differ in length.
_gpr(self, mol_features, ref_mean, c, zid) ==
    IF Len(mol_features) # Len(zid) \/ c.rank # 2 THEN [status |-> "IndexError"]
    ELSE [status |-> "ok",
          value |-> gpr_loop(self, mol_features, ref_mean, c, zid, Len(self._n_ref))]

(***************************************************************************)
(* The external models (torchani): the AEV computer and the ANI2x model.   *)
(***************************************************************************)
L1(p, q) == Abs(p[1] - q[1]) + Abs(p[2] - q[2]) + Abs(p[3] - q[3])

\* aev_computer((zid, xyz))[1][0]: one raw feature vector per atom, a
\* function of the species and the geometry; an atom with species -1 is
\* padding and has the zero vector.
aev_computer(zid, xyz) ==
    [i \in 1..Len(zid) |->
        IF zid[i] < 0 THEN <<0, 0, 0>>
        ELSE <<zid[i] + 1,
               1 + Sum([j \in 1..Len(zid) |->
                           IF zid[j] < 0 THEN 0 ELSE L1(xyz[i], xyz[j])]),
               Len(zid)>>]

\* self._ani2x((atomic_numbers, xyz)).energies[0], kept as a term.
ani2x_energy(atomic_numbers, xyz) ==
    [term |-> "E_vac", atomic_numbers |-> atomic_numbers, xyz |-> xyz]

\* A hook that stores the features only while none are stored.
hook_store_once(module_aev, output) ==
    IF module_aev = <<>> THEN output ELSE module_aev

\* The forward hook registered on the AEV computer: module._aev = output[1][0].
\* Gives the new value of the attribute.
hook(module_aev, output) == output

(***************************************************************************)
(* forward.                                                                *)
(***************************************************************************)
\* aev[:, self._aev_mask] followed by aev / norm(aev, ord=2, dim=1)
normalised_aev(self, aev) ==
    [i \in 1..Len(aev) |->
        LET v == Select(aev[i], self._aev_mask)
        IN [v |-> v, n2 |-> Rat(Dot(v, v), UnitNorm2)]]

\* An entry of torch.zeros(2): the energy 0, a term like the other energies.
zeros == [term |-> "0"]

\* mesh_data[2] * f1[:, :, None] * q[:, None] in _get_mu_ind: the (M, 3) of
\* the mesh tensor against the (K, 1) of the K external charges.
broadcasts(M, K) == M = K \/ M = 1 \/ K = 1

\* vpot_static @ charges_mm: M potentials against K charges.
matmul_sizes(M, K) == M = K

\* The part of forward after the features are in hand: the GPR predictions
\* and the two energies.  The energies are kept as terms over the
\* quantities they are computed from.  A RuntimeError of a tensor
\* operation carries the function that raised it and the locals of forward
\* that had been computed by then.
embedding(self, mode, species_id, aev, a) ==
    LET s == _gpr(self, aev, self._ref_mean_s, self._c_s, species_id)
        chi == _gpr(self, aev, self._ref_mean_chi, self._c_chi, species_id)
        q_core == [i \in 1..Len(species_id) |-> At(self._q_core, species_id[i])]
        k == IF mode = "species"
             THEN [i \in 1..Len(species_id) |-> At(self._k, species_id[i])]
             ELSE _gpr(self, aev, self._ref_mean_k, self._c_k, species_id)
    IN IF s.status # "ok" THEN s
       ELSE IF chi.status # "ok" THEN chi
       ELSE IF mode # "species" /\ k.status # "ok" THEN k
       ELSE IF ~broadcasts(Len(a.xyz_mm), Len(a.charges_mm))
       THEN [status |-> "RuntimeError", raised_in |-> "_get_mu_ind",
             computed |-> <<"aev", "s", "chi", "k", "r_data", "mesh_data", "q">>]
       ELSE IF ~matmul_sizes(Len(a.xyz_mm), Len(a.charges_mm))
       THEN [status |-> "RuntimeError", raised_in |-> "forward",
             computed |-> <<"aev", "s", "chi", "k", "r_data", "mesh_data", "q",
                            "mu_ind", "vpot_static">>]
       ELSE [status |-> "ok",
             value |-> <<[term |-> "E_static", q_core |-> q_core,
                          s |-> s.value, chi |-> chi.value,
                          q_total |-> self._q_total, a_QEq |-> self._a_QEq,
                          xyz_qm |-> a.xyz_qm, xyz_mm |-> a.xyz_mm,
                          charges_mm |-> a.charges_mm],
                         [term |-> "E_ind", q_core |-> q_core,
                          s |-> s.value, chi |-> chi.value,
                          k |-> IF mode = "species" THEN k ELSE k.value,
                          q_total |-> self._q_total, a_QEq |-> self._a_QEq,
                          a_Thole |-> self._a_Thole,
                          xyz_qm |-> a.xyz_qm, xyz_mm |-> a.xyz_mm,
                          charges_mm |-> a.charges_mm]>>]

\* species_id = self._species_map[atomic_numbers]
species_ids(self, atomic_numbers) ==
    IF \E i \in 1..Len(atomic_numbers) : ~InRange(self._species_map, atomic_numbers[i])
    THEN [status |-> "IndexError"]
    ELSE [status |-> "ok",
          value |-> [i \in 1..Len(atomic_numbers) |->
                        At(self._species_map, atomic_numbers[i])]]

\* EMLE.forward(atomic_numbers, charges_mm, xyz_qm, xyz_mm)
EMLE_forward(self, mode, a) ==
    IF Len(a.xyz_mm) = 0 THEN [status |-> "ok", value |-> <<zeros, zeros>>]
    ELSE LET species_id == species_ids(self, a.atomic_numbers)
         IN IF species_id.status # "ok" THEN species_id
            ELSE embedding(self, mode, species_id.value,
                           normalised_aev(self,
                               aev_computer(species_id.value, a.xyz_qm)), a)

\* ANI2xEMLE.forward up to and including the call of the ANI2x model, whose
\* AEV computer fires the hook: the locals of the call and the new value of
\* aev_computer._aev.
ANI2xEMLE_forward_enter(self, module_aev, a) ==
    LET species_id == species_ids(self, a.atomic_numbers)
    IN IF species_id.status # "ok"
       THEN [status |-> "IndexError", _aev |-> module_aev]
       ELSE [status |-> "ok",
             species_id |-> species_id.value,
             E_vac |-> ani2x_energy(a.atomic_numbers, a.xyz_qm),
             _aev |-> hook(module_aev, aev_computer(species_id.value, a.xyz_qm))]

\* ANI2xEMLE.forward without the test of len(xyz_mm).
ANI2xEMLE_forward_no_shortcut(self, mode, module_aev, locals, a) ==
    LET e == embedding(self, mode, locals.species_id,
                       normalised_aev(self, module_aev), a)
    IN IF e.status # "ok" THEN e
       ELSE [status |-> "ok", value |-> <<locals.E_vac>> \o e.value]

\* ANI2xEMLE.forward stacking the embedding energies in front of E_vac.
ANI2xEMLE_forward_vacuum_last(self, mode, module_aev, locals, a) ==
    IF Len(a.xyz_mm) = 0
    THEN [status |-> "ok", value |-> <<zeros, zeros, locals.E_vac>>]
    ELSE LET e == embedding(self, mode, locals.species_id,
                            normalised_aev(self, module_aev), a)
         IN IF e.status # "ok" THEN e
            ELSE [status |-> "ok", value |-> e.value \o <<locals.E_vac>>]

\* ANI2xEMLE.forward from the test of len(xyz_mm) on; module_aev is the
\* value of aev_computer._aev when it is read.
ANI2xEMLE_forward_resume(self, mode, module_aev, locals, a) ==
    IF Len(a.xyz_mm) = 0
    THEN [status |-> "ok", value |-> <<locals.E_vac, zeros, zeros>>]
    ELSE LET e == embedding(self, mode, locals.species_id,
                            normalised_aev(self, module_aev), a)
         IN IF e.status # "ok" THEN e
            ELSE [status |-> "ok", value |-> <<locals.E_vac>> \o e.value]

(***************************************************************************)
(* The engine: one object, its callers, and the inputs they present.       *)
(***************************************************************************)
\* The parameter file shipped with the package for alpha_mode mode
\* (emle_qm7_aev.mat, emle_qm7_aev_alphagpr.mat): one row per species,
\* reference rows beyond n_ref are zero padding.
ResourceFile(mode) ==
    [aev_mask |-> <<TRUE, TRUE, FALSE>>,
     q_core |-> <<1, 4, 5, 6, 6>>,
     a_QEq |-> 1,
     a_Thole |-> 2,
     k_Z |-> <<1, 2, 2, 3, 3>>,
     total_charge |-> 0,
     sqrtk_ref |-> <<<<1, 2>>, <<2, 0>>, <<1, 0>>, <<2, 1>>, <<3, 0>>>>,
     ref_aev |-> <<<<<<1, 0>>, <<1, 1>>>>, <<<<0, 1>>, <<0, 0>>>>,
                   <<<<1, 1>>, <<0, 0>>>>, <<<<0, 1>>, <<1, 1>>>>,
                   <<<<1, 0>>, <<0, 0>>>>>>,
     s_ref |-> <<<<1, 2>>, <<2, 0>>, <<3, 0>>, <<2, 3>>, <<1, 0>>>>,
     chi_ref |-> <<<<0, 1>>, <<1, 0>>, <<2, 0>>, <<3, 1>>, <<2, 0>>>>,
     n_ref |-> <<2, 1, 1, 2, 1>>]

\* Atomic numbers presented by callers: molecules of supported species
\* (H, O), and single atoms of unsupported ones: He lies inside the species
\* map, Cl beyond the end of it.
AtomicNumbers == {1, 8}

Unsupported == {2, 17}

SeqsUpTo(S, n) == UNION {[1..m -> S] : m \in 1..n}

\* n atoms on a line, spacing d Angstrom
Geometry(n, d) == [i \in 1..n |-> <<(i - 1) * d, 0, 0>>]

\* External charges and their positions
MMEnvironments ==
    {[charges_mm |-> <<>>, xyz_mm |-> <<>>],
     [charges_mm |-> <<1>>, xyz_mm |-> <<<<0, 0, 3>>>>]}

\* External charges whose number is not the number of their positions
MismatchedEnvironments ==
    {[charges_mm |-> <<1>>, xyz_mm |-> <<>>],
     [charges_mm |-> <<1, -1>>, xyz_mm |-> <<<<0, 0, 3>>>>],
     [charges_mm |-> <<1, -1, 1>>, xyz_mm |-> <<<<0, 0, 3>>, <<0, 3, 0>>>>]}

SnapshotsOver(Z, n, E) ==
    {[atomic_numbers |-> z, charges_mm |-> m.charges_mm,
      xyz_qm |-> Geometry(Len(z), d), xyz_mm |-> m.xyz_mm] :
        z \in SeqsUpTo(Z, n), d \in {1, 2}, m \in E}

\* What callers present: molecules with fitting external charges, single
\* atoms of unsupported species, and single atoms with external charges
\* that do not fit their positions.
Snapshots ==
    SnapshotsOver(AtomicNumbers, MaxAtoms, MMEnvironments)
    \cup SnapshotsOver(Unsupported, 1, MMEnvironments)
    \cup SnapshotsOver(AtomicNumbers, 1, MismatchedEnvironments)

\* The inputs of concurrent callers: supported species only.
ConcurrentSnapshots == SnapshotsOver(AtomicNumbers, MaxAtoms, MMEnvironments)

NoArgs == [atomic_numbers |-> <<>>, charges_mm |-> <<>>, xyz_qm |-> <<>>, xyz_mm |-> <<>>]

NoFrame == [status |-> "none"]

NoResult == [status |-> "none"]

\* torch.empty(0), the value __init__ gives aev_computer._aev
EmptyTensor == <<>>

Outcome(r) == IF r.status = "ok" THEN "returned" ELSE "raised"

EngineUnused ==
    /\ kind = "none"
    /\ alpha_mode = "species"
    /\ buffers = NoResult
    /\ aev_attr = EmptyTensor
    /\ pc = <<>>
    /\ args = <<>>
    /\ frame = <<>>
    /\ ret = <<>>
    /\ reused = FALSE

GPRUnused ==
    /\ mat = <<>>
    /\ built = NoResult
    /\ gpr_in = <<>>
    /\ gpr_out = NoResult

QEqUnused ==
    /\ qeq_in = <<>>
    /\ qeq_out = NoResult

TholeUnused ==
    /\ thole_in = <<>>
    /\ thole_out = NoResult

EnergyUnused ==
    /\ energy_in = <<>>
    /\ energy_out = NoResult

ObjectUnused ==
    /\ heap = <<>>
    /\ last = NoResult

AEVUnused ==
    /\ aev_in = <<>>
    /\ aev_out = NoResult

SanderUnused ==
    /\ sander = <<>>
    /\ calculators = <<>>
    /\ sander_log = <<>>

EngineInit(callers) ==
    /\ kind \in {"EMLE", "ANI2xEMLE"}
    /\ alpha_mode \in {"species", "reference"}
    /\ buffers = EMLE_init(alpha_mode, ResourceFile(alpha_mode))
    /\ aev_attr = EmptyTensor
    /\ pc = [t \in callers |-> "idle"]
    /\ args = [t \in callers |-> NoArgs]
    /\ frame = [t \in callers |-> NoFrame]
    /\ ret = [t \in callers |-> NoResult]
    /\ reused = FALSE

\* A caller runs EMLE.forward.  The call touches no shared mutable state,
\* so it is one step also among concurrent callers.
Forward_EMLE(t, inputs) ==
    /\ kind = "EMLE"
    /\ pc[t] # "in_forward"
    /\ \E a \in inputs :
          LET r == EMLE_forward(buffers, alpha_mode, a)
          IN /\ args' = [args EXCEPT ![t] = a]
             /\ ret' = [ret EXCEPT ![t] = r]
             /\ pc' = [pc EXCEPT ![t] = Outcome(r)]
    /\ reused' = (\E u \in DOMAIN pc : pc[u] # "idle")
    /\ UNCHANGED <<kind, alpha_mode, buffers, aev_attr, frame, gpr_vars, qeq_vars, thole_vars, energy_vars, object_vars,
                 aev_vars, sander_vars>>

\* A caller runs ANI2xEMLE.forward from start to end with no other call in
\* between.
Forward_ANI2xEMLE(t, inputs) ==
    /\ kind = "ANI2xEMLE"
    /\ pc[t] # "in_forward"
    /\ \E a \in inputs :
          LET e == ANI2xEMLE_forward_enter(buffers, aev_attr, a)
              r == IF e.status # "ok" THEN [status |-> e.status]
                   ELSE ANI2xEMLE_forward_resume(buffers, alpha_mode, e._aev, e, a)
          IN /\ args' = [args EXCEPT ![t] = a]
             /\ aev_attr' = e._aev
             /\ ret' = [ret EXCEPT ![t] = r]
             /\ pc' = [pc EXCEPT ![t] = Outcome(r)]
    /\ reused' = (\E u \in DOMAIN pc : pc[u] # "idle")
    /\ UNCHANGED <<kind, alpha_mode, buffers, frame, gpr_vars, qeq_vars, thole_vars, energy_vars, object_vars,
                 aev_vars, sander_vars>>

\* A caller starts ANI2xEMLE.forward and runs it through the call of the
\* ANI2x model (the hook has fired when the model returns).
Enter_ANI2xEMLE(t, inputs) ==
    /\ kind = "ANI2xEMLE"
    /\ pc[t] # "in_forward"
    /\ \E a \in inputs :
          LET e == ANI2xEMLE_forward_enter(buffers, aev_attr, a)
          IN /\ args' = [args EXCEPT ![t] = a]
             /\ aev_attr' = e._aev
             /\ frame' = [frame EXCEPT ![t] = e]
             /\ ret' = [ret EXCEPT ![t] =
                           IF e.status = "ok" THEN NoResult ELSE [status |-> e.status]]
             /\ pc' = [pc EXCEPT ![t] = IF e.status = "ok" THEN "in_forward" ELSE "raised"]
    /\ reused' = (\E u \in DOMAIN pc : pc[u] # "idle")
    /\ UNCHANGED <<kind, alpha_mode, buffers, gpr_vars, qeq_vars, thole_vars, energy_vars, object_vars,
                 aev_vars, sander_vars>>

\* The caller continues from the test of len(xyz_mm) to the return.
Resume_ANI2xEMLE(t) ==
    /\ pc[t] = "in_forward"
    /\ LET r == ANI2xEMLE_forward_resume(buffers, alpha_mode, aev_attr, frame[t], args[t])
       IN /\ ret' = [ret EXCEPT ![t] = r]
          /\ pc' = [pc EXCEPT ![t] = Outcome(r)]
    /\ frame' = [frame EXCEPT ![t] = NoFrame]
    /\ UNCHANGED <<kind, alpha_mode, buffers, aev_attr, args, reused, gpr_vars, qeq_vars, thole_vars, energy_vars, object_vars,
                 aev_vars, sander_vars>>

\* One caller: forward calls follow one another.
Init ==
    /\ EngineInit({1})
    /\ GPRUnused
    /\ QEqUnused
    /\ TholeUnused
    /\ EnergyUnused
    /\ ObjectUnused
    /\ AEVUnused
    /\ SanderUnused

Next ==
    \/ Forward_EMLE(1, Snapshots)
    \/ Forward_ANI2xEMLE(1, Snapshots)

Spec == Init /\ [][Next]_vars

\* Two callers share the engine object and run forward concurrently.
InitConcurrent ==
    /\ EngineInit({1, 2})
    /\ GPRUnused
    /\ QEqUnused
    /\ TholeUnused
    /\ EnergyUnused
    /\ ObjectUnused
    /\ AEVUnused
    /\ SanderUnused

NextConcurrent ==
    \E t \in {1, 2} :
        \/ Forward_EMLE(t, ConcurrentSnapshots)
        \/ Enter_ANI2xEMLE(t, ConcurrentSnapshots)
        \/ Resume_ANI2xEMLE(t)

SpecConcurrent == InitConcurrent /\ [][NextConcurrent]_vars

(***************************************************************************)
(* Properties of forward.                                                  *)
(***************************************************************************)
Done(t) == pc[t] \in {"returned", "raised"}

Supported(atomic_numbers) ==
    \A i \in 1..Len(atomic_numbers) :
        \E j \in 1..NSpecies : species[j] = atomic_numbers[i]

NoExternalCharges(a) == Len(a.charges_mm) = 0 /\ Len(a.xyz_mm) = 0

\* What forward gives for the inputs a on an engine of class k that has
\* just been constructed and serves no other call.
ForwardAlone(k, mode, a) ==
    LET self == EMLE_init(mode, ResourceFile(mode))
        e == ANI2xEMLE_forward_enter(self, EmptyTensor, a)
    IN IF k = "EMLE" THEN EMLE_forward(self, mode, a)
       ELSE IF e.status # "ok" THEN [status |-> e.status]
       ELSE ANI2xEMLE_forward_resume(self, mode, e._aev, e, a)

\* C1: a forward call with no external charges returns zero static and
\* zero induced energy; ANI2xEMLE puts the in-vacuo energy of the molecule
\* in front of the two zeros.  (ANI2xEMLE looks the atomic numbers up before
\* anything else, so there the numbers must index the species map.)
C1_NoChargesGiveZeros ==
    \A t \in DOMAIN pc :
        (Done(t) /\ NoExternalCharges(args[t])) =>
            IF kind = "EMLE"
            THEN ret[t] = [status |-> "ok", value |-> <<zeros, zeros>>]
            ELSE IF species_ids(buffers, args[t].atomic_numbers).status = "ok"
            THEN ret[t] = [status |-> "ok",
                           value |-> <<ani2x_energy(args[t].atomic_numbers,
                                                    args[t].xyz_qm), zeros, zeros>>]
            ELSE ret[t].status = "IndexError"

C1_Witness ==
    /\ kind = "ANI2xEMLE"
    /\ pc[1] = "returned"
    /\ NoExternalCharges(args[1])
    /\ Len(args[1].atomic_numbers) = 2
    /\ ret[1].value[2] = zeros
    /\ ret[1].value[3] = zeros
    /\ aev_attr # EmptyTensor

\* C2: every atomic number of a call that returns is a supported one and
\* so has a species index in 0 .. N_species - 1: a call that presents any
\* other atomic number raises.
C2_UnsupportedNumberRaises ==
    \A t \in DOMAIN pc :
        pc[t] = "returned" =>
            /\ Supported(args[t].atomic_numbers)
            /\ \A i \in 1..Len(args[t].atomic_numbers) :
                  species_ids(buffers, args[t].atomic_numbers).value[i]
                      \in 0..(NSpecies - 1)

\* C3: a forward call that ran concurrently with another call on the same
\* engine ends as it would have ended alone.
C3_ConcurrentCallsAsAlone ==
    \A t \in DOMAIN pc :
        Done(t) => ret[t] = ForwardAlone(kind, alpha_mode, args[t])

\* C4: forward leaves every field of the engine and of its feature provider
\* as the constructor set it.
C4_ForwardWritesNoField ==
    /\ buffers = EMLE_init(alpha_mode, ResourceFile(alpha_mode))
    /\ aev_attr = EmptyTensor

\* C5: of forward calls that follow one another, each ends as it would on a
\* fresh engine, whatever calls came before it, and the features left in
\* the AEV computer after a call that returned are those of its own inputs.
C5_SequentialCallsIndependent ==
    \A t \in DOMAIN pc :
        /\ Done(t) => ret[t] = ForwardAlone(kind, alpha_mode, args[t])
        /\ (kind = "ANI2xEMLE" /\ pc[t] = "returned") =>
              aev_attr = aev_computer(
                             species_ids(buffers, args[t].atomic_numbers).value,
                             args[t].xyz_qm)

\* A call with external charges has returned three energies after an
\* earlier call had left other features in the AEV computer.
C5_Witness ==
    /\ kind = "ANI2xEMLE"
    /\ pc[1] = "returned"
    /\ Len(args[1].xyz_mm) > 0
    /\ Len(ret[1].value) = 3
    /\ args[1].atomic_numbers = <<8, 1>>
    /\ args[1].xyz_qm = Geometry(2, 2)
    /\ reused

\* C15: the first component of what ANI2xEMLE.forward returns is the
\* in-vacuo energy of the ANI2x model for the atomic numbers and the QM
\* positions of the call: the external charges, their positions and the
\* calls made before have no part in it.
C15_VacuumEnergyOfMoleculeOnly ==
    \A t \in DOMAIN pc :
        (kind = "ANI2xEMLE" /\ pc[t] = "returned") =>
            ret[t].value[1] = ani2x_energy(args[t].atomic_numbers, args[t].xyz_qm)

\* A call with an external charge has returned the three energies of a
\* two-atom molecule, the embedding terms behind the in-vacuo energy.
C15_Witness ==
    /\ kind = "ANI2xEMLE"
    /\ pc[1] = "returned"
    /\ Len(args[1].atomic_numbers) = 2
    /\ Len(args[1].charges_mm) = 1
    /\ Len(args[1].xyz_mm) = 1
    /\ ret[1].value[1].term = "E_vac"
    /\ ret[1].value[2].term = "E_static"
    /\ ret[1].value[2].charges_mm = args[1].charges_mm

\* C16: a forward call whose tensors do not fit one another, such as one
\* with more external charges than positions of external charges, fails
\* before any feature, GPR prediction or solve has been computed, and
\* never returns an energy.
C16_ShapeMismatchFailsAtStart ==
    \A t \in DOMAIN pc :
        (Done(t) /\ Len(args[t].charges_mm) # Len(args[t].xyz_mm)) =>
            /\ pc[t] = "raised"
            /\ (ret[t].status = "RuntimeError" => ret[t].computed = <<>>)

(***************************************************************************)
(* The GPR model on its own: a parameter file is loaded, the constructor   *)
(* derives the mean offsets and the weight coefficients, and _gpr predicts *)
(* the valence widths of a set of atoms.                                   *)
(***************************************************************************)
\* Reference rows and values of a file; a slot beyond n_ref holds zero or
\* a leftover value.
RefVectors == {<<1, 0>>, <<1, 1>>}

PadVectors == {<<0, 0>>, <<0, 1>>}

RefValues == {1, 3}

PadValues == {0, 2}

\* The rows of one species in a file whose arrays are W references wide.
SpeciesRows(W, RV, PV, RX, PX) ==
    UNION {{[n_ref |-> n, ref_aev |-> r, s_ref |-> x] :
               r \in {r \in [1..W -> RV \cup PV] :
                         \A j \in 1..W : IF j <= n THEN r[j] \in RV ELSE r[j] \in PV},
               x \in {x \in [1..W -> RX \cup PX] :
                         \A j \in 1..W : IF j <= n THEN x[j] \in RX ELSE x[j] \in PX}} :
           n \in 1..W}

\* Files of every width up to MaxNRef.  The rows of H vary freely, those of
\* O in the number of references, the other species hold one reference.
ParameterFiles ==
    UNION {{[aev_mask |-> <<TRUE, TRUE, FALSE>>,
             q_core |-> <<1, 4, 5, 6, 6>>,
             a_QEq |-> 1,
             a_Thole |-> 2,
             k_Z |-> <<1, 2, 2, 3, 3>>,
             total_charge |-> 0,
             sqrtk_ref |-> [z \in 1..NSpecies |-> [j \in 1..W |-> IF j = 1 THEN 1 ELSE 0]],
             ref_aev |-> [z \in 1..NSpecies |->
                             IF z = 1 THEN h.ref_aev
                             ELSE IF z = 4 THEN o.ref_aev
                             ELSE [j \in 1..W |-> IF j = 1 THEN <<1, 0>> ELSE <<0, 0>>]],
             s_ref |-> [z \in 1..NSpecies |->
                           IF z = 1 THEN h.s_ref
                           ELSE IF z = 4 THEN o.s_ref
                           ELSE [j \in 1..W |-> IF j = 1 THEN 2 ELSE 0]],
             chi_ref |-> [z \in 1..NSpecies |-> [j \in 1..W |-> IF j = 1 THEN 1 ELSE 0]],
             n_ref |-> [z \in 1..NSpecies |->
                           IF z = 1 THEN h.n_ref ELSE IF z = 4 THEN o.n_ref ELSE 1]] :
               h \in SpeciesRows(W, RefVectors, PadVectors, RefValues, PadValues),
               o \in SpeciesRows(W, {<<1, 1>>}, {<<0, 0>>}, {3}, {0})} :
           W \in 1..MaxNRef}

\* Feature vectors handed to _gpr: an unscaled one and <<1, 2>> scaled to
\* Euclidean length 1.
Features ==
    {[v |-> <<0, 1>>, n2 |-> <<1, 1>>],
     [v |-> <<1, 2>>, n2 |-> Rat(5, UnitNorm2)]}

GPRInputs ==
    UNION {{[mol_features |-> f, zid |-> z] : f \in [1..n -> Features], z \in [1..n -> {0, 3}]} :
           n \in 1..MaxAtoms}

InitGPR ==
    /\ mat \in ParameterFiles
    /\ built = NoResult
    /\ gpr_in = <<>>
    /\ gpr_out = NoResult
    /\ EngineUnused
    /\ QEqUnused
    /\ TholeUnused
    /\ EnergyUnused
    /\ ObjectUnused
    /\ AEVUnused
    /\ SanderUnused

\* EMLE.__init__ on the loaded file
Construct ==
    /\ built.status = "none"
    /\ built' = EMLE_init("species", mat)
    /\ UNCHANGED <<mat, gpr_in, gpr_out, engine_vars, qeq_vars, thole_vars, energy_vars, object_vars,
                 aev_vars, sander_vars>>

\* s = self._gpr(aev, self._ref_mean_s, self._c_s, species_id)
Predict ==
    /\ built.status = "ok"
    /\ gpr_out.status = "none"
    /\ \E x \in GPRInputs :
          /\ gpr_in' = x
          /\ gpr_out' = _gpr(built, x.mol_features, built._ref_mean_s, built._c_s, x.zid)
    /\ UNCHANGED <<mat, built, engine_vars, qeq_vars, thole_vars, energy_vars, object_vars,
                 aev_vars, sander_vars>>

NextGPR == Construct \/ Predict

SpecGPR == InitGPR /\ [][NextGPR]_vars

(***************************************************************************)
(* Properties of the GPR prediction.                                       *)
(***************************************************************************)
Predicted == gpr_out.status = "ok"

AtomOrders(n) == {p \in [1..n -> 1..n] : \A i, j \in 1..n : p[i] = p[j] => i = j}

Permute(seq, p) == [i \in 1..Len(seq) |-> seq[p[i]]]

\* C7: reordering the atoms handed to _gpr reorders the predicted values in
\* the same way, whatever the species of the atoms.
C7_GPRPermutationEquivariant ==
    Predicted =>
        \A p \in AtomOrders(Len(gpr_in.zid)) :
            _gpr(built, Permute(gpr_in.mol_features, p), built._ref_mean_s, built._c_s,
                 Permute(gpr_in.zid, p)).value
            = Permute(gpr_out.value, p)

\* Two atoms in an order that is not the order of their species, with
\* different predicted values.
C7_Witness ==
    /\ Predicted
    /\ gpr_in.zid = <<3, 0>>
    /\ gpr_out.value[1] # gpr_out.value[2]

\* C8: the value predicted for an atom of species z is ref_mean[z] plus the
\* sum over the first n_ref[z] references of z of (ref[z, j] . f_a)^2 c[z, j];
\* no other reference and no padding entry enters the sum.
C8_GPRFormula ==
    Predicted =>
        \A a \in 1..Len(gpr_in.zid) :
            LET z == gpr_in.zid[a] + 1
                f == gpr_in.mol_features[a]
            IN gpr_out.value[a]
               = RAdd(built._ref_mean_s[z],
                      RSum([j \in 1..built._n_ref[z] |->
                               RMul(RDiv(FromInt(Dot(built._ref_features[z][j], f.v)
                                                 * Dot(built._ref_features[z][j], f.v)),
                                         f.n2),
                                    built._c_s.data[z][j])]))

\* A prediction for a species with fewer references than the arrays are
\* wide, whose padding row has a non-zero kernel with the atom and a
\* non-zero coefficient.
C8_Witness ==
    /\ Predicted
    /\ \E a \in 1..Len(gpr_in.zid) :
          LET z == gpr_in.zid[a] + 1
          IN /\ built._n_ref[z] < Len(built._ref_features[z])
             /\ \E j \in (built._n_ref[z] + 1)..Len(built._ref_features[z]) :
                   /\ Dot(built._ref_features[z][j], gpr_in.mol_features[a].v) # 0
                   /\ built._c_s.data[z][j] # FromInt(0)

\* The file with every slot beyond n_ref set to zero.
ZeroPadding(file) ==
    [file EXCEPT
        !.ref_aev = [z \in 1..NSpecies |->
                        [j \in 1..Len(file.ref_aev[z]) |->
                            IF j <= file.n_ref[z] THEN file.ref_aev[z][j] ELSE <<0, 0>>]],
        !.s_ref = [z \in 1..NSpecies |->
                      [j \in 1..Len(file.s_ref[z]) |->
                          IF j <= file.n_ref[z] THEN file.s_ref[z][j] ELSE 0]]]

\* C9: the mean offset and the weight coefficients depend only on the first
\* n_ref references of each species: what the padding slots hold never
\* changes a prediction.
C9_PaddingNeverChangesPrediction ==
    Predicted =>
        LET clean == EMLE_init("species", ZeroPadding(mat))
        IN gpr_out = _gpr(clean, gpr_in.mol_features, clean._ref_mean_s, clean._c_s,
                          gpr_in.zid)

\* The species of the file that hold exactly one reference.
SingleReference == {z \in 1..NSpecies : mat.n_ref[z] = 1}

\* C10: with a species that has exactly one reference neither the
\* constructor nor a prediction fails, and an atom of that species whose
\* kernel with the reference is zero is predicted the value of the reference.
C10_SingleReferenceSpecies ==
    SingleReference # {} =>
        /\ built.status \in {"none", "ok"}
        /\ gpr_out.status \in {"none", "ok"}
        /\ Predicted =>
              \A a \in 1..Len(gpr_in.zid) :
                  LET z == gpr_in.zid[a] + 1
                  IN (z \in SingleReference
                      /\ Dot(mat.ref_aev[z][1], gpr_in.mol_features[a].v) = 0)
                     => gpr_out.value[a] = FromInt(mat.s_ref[z][1])

(***************************************************************************)
(* The charge equilibration solve (EMLE._get_q).  The Gaussian-damped      *)
(* Coulomb matrix of _get_T0_gaussian and the self-interaction terms       *)
(* 1 / (s_gauss sqrt(pi)) are functions of the geometry and of the widths  *)
(* through erf and sqrt; the model takes their values as given: a          *)
(* symmetric matrix T0 and a positive vector new_diag, in whole units.     *)
(***************************************************************************)
\* A with a bottom-right entry of one: B[-1, -1] = 0.0 left out.
_get_A_QEq_ones_corner(T0, new_diag) ==
    LET x == Len(T0)
    IN [i \in 1..(x + 1) |->
           [j \in 1..(x + 1) |->
               IF i <= x /\ j <= x THEN (IF i = j THEN new_diag[i] ELSE T0[i][j])
               ELSE 1]]

\* _get_A_QEq: the diagonal of T0 is replaced by new_diag, then the matrix
\* is bordered with a row and a column of ones and a zero corner.
_get_A_QEq(T0, new_diag) ==
    LET x == Len(T0)
        mask == [i \in 1..x |-> [j \in 1..x |-> IF i = j THEN 1 ELSE 0]]
        A == [i \in 1..x |->
                 [j \in 1..x |->
                     mask[i][j] * (IF i = j THEN new_diag[i] ELSE 0)
                     + (1 - mask[i][j]) * T0[i][j]]]
    IN [i \in 1..(x + 1) |->
           [j \in 1..(x + 1) |->
               IF i = x + 1 /\ j = x + 1 THEN 0
               ELSE IF i <= x /\ j <= x THEN A[i][j]
               ELSE 1]]

\* _get_q: solve(A, hstack([-chi, q_total]))[:-1]
_get_q(q_total, T0, new_diag, chi) ==
    LET A == _get_A_QEq(T0, new_diag)
        b == [i \in 1..Len(chi) |-> -chi[i]] \o <<q_total>>
        x == linalg_solve(A, b)
    IN IF x.status # "ok" THEN x
       ELSE [status |-> "ok", value |-> Take(x.value, Len(x.value) - 1)]

\* Molecules of up to MaxAtoms atoms: the damped Coulomb matrix (symmetric,
\* zero diagonal), the self-interaction terms, the electronegativities and
\* the total charge.
QEqInputs ==
    UNION {{[T0 |-> T, new_diag |-> d, chi |-> c, q_total |-> q] :
               T \in {T \in [1..n -> [1..n -> 0..2]] :
                         \A i, j \in 1..n : T[i][j] = T[j][i] /\ T[i][i] = 0},
               d \in [1..n -> 1..3],
               c \in [1..n -> {-1, 1}],
               q \in -1..1} :
           n \in 1..MaxAtoms}

InitQEq ==
    /\ qeq_in \in QEqInputs
    /\ qeq_out = NoResult
    /\ EngineUnused
    /\ GPRUnused
    /\ TholeUnused
    /\ EnergyUnused
    /\ ObjectUnused
    /\ AEVUnused
    /\ SanderUnused

\* q = self._get_q(r_data, s, chi)
Get_q ==
    /\ qeq_out.status = "none"
    /\ qeq_out' = _get_q(qeq_in.q_total, qeq_in.T0, qeq_in.new_diag, qeq_in.chi)
    /\ UNCHANGED <<qeq_in, engine_vars, gpr_vars, thole_vars, energy_vars, object_vars,
                 aev_vars, sander_vars>>

NextQEq == Get_q

SpecQEq == InitQEq /\ [][NextQEq]_vars

\* C6: whenever the QEq system is solvable, the N charges it returns sum to
\* the total charge; the Lagrange multiplier is not among them.
C6_ChargesSumToTotal ==
    qeq_out.status = "ok" =>
        /\ Len(qeq_out.value) = Len(qeq_in.chi)
        /\ RSum(qeq_out.value) = FromInt(qeq_in.q_total)

\* Two atoms with different charges on a charged molecule.
C6_Witness ==
    /\ qeq_out.status = "ok"
    /\ Len(qeq_in.chi) = 2
    /\ qeq_in.q_total # 0
    /\ qeq_out.value[1] # qeq_out.value[2]
    /\ qeq_in.T0[1][2] # 0

(***************************************************************************)
(* Pair tensors and the Thole matrix (EMLE._get_r_data, _get_A_thole).     *)
(* Positions are whole numbers of Bohr chosen so that every distance is a  *)
(* whole number, and polarizabilities so that every product of two is a    *)
(* square: sqrt is then exact.  torch.exp(-x) is represented by the        *)
(* rational function 1 / (1 + x)^2, which is 1 at x = 0, positive, and     *)
(* decreases to 0 as it does; nothing checked below depends on more.       *)
(***************************************************************************)
RECURSIVE RPow(_, _)
RPow(a, n) == IF n = 0 THEN FromInt(1) ELSE RMul(a, RPow(a, n - 1))

\* torch.sqrt: exact on the squares, nan below zero
Sqrt(a) ==
    IF ~IsFinite(a) \/ a[1] < 0 THEN NaN
    ELSE <<CHOOSE r \in 0..a[1] : r * r = a[1], CHOOSE r \in 1..a[2] : r * r = a[2]>>

\* torch.exp(-x)
exp_neg(x) == RDiv(FromInt(1), RPow(RAdd(FromInt(1), x), 2))

\* Row or column R of a (3 N, 3 N) matrix belongs to atom AtomOf(R), axis AxisOf(R).
AtomOf(R) == ((R - 1) \div 3) + 1

AxisOf(R) == ((R - 1) % 3) + 1

\* tensor.repeat(3, 3): the matrix tiled, not interleaved.
repeat_tiled3(m) ==
    [R \in 1..(3 * Len(m)) |->
        [C \in 1..(3 * Len(m)) |-> m[((R - 1) % Len(m)) + 1][((C - 1) % Len(m)) + 1]]]

\* tensor.repeat_interleave(3, dim=1).repeat_interleave(3, dim=0)
repeat_interleave3(m) ==
    [R \in 1..(3 * Len(m)) |-> [C \in 1..(3 * Len(m)) |-> m[AtomOf(R)][AtomOf(C)]]]

\* torch.cdist(xyz, xyz)
cdist(xyz) ==
    [i \in 1..Len(xyz) |->
        [j \in 1..Len(xyz) |->
            Sqrt(FromInt(Dot([c \in 1..3 |-> xyz[i][c] - xyz[j][c]],
                             [c \in 1..3 |-> xyz[i][c] - xyz[j][c]])))]]

\* A self-pair found by its index and not by its distance.
r_inv_by_index(r_mat) ==
    [i \in 1..Len(r_mat) |->
        [j \in 1..Len(r_mat) |->
            IF i = j THEN FromInt(0) ELSE RDiv(FromInt(1), r_mat[i][j])]]

\* r_inv = torch.where(r_mat == 0.0, 0.0, 1.0 / r_mat)
r_inv(r_mat) ==
    [i \in 1..Len(r_mat) |->
        [j \in 1..Len(r_mat) |->
            IF r_mat[i][j] = FromInt(0) THEN FromInt(0)
            ELSE RDiv(FromInt(1), r_mat[i][j])]]

\* outer = einsum("bik,bij->bjik", rr_mat, rr_mat).reshape(3 N, 3 N) with
\* rr_mat[b, i, :] = xyz[b] - xyz[i]: entry (3 b + j, 3 i + k) is
\* rr_mat[b, i, k] * rr_mat[b, i, j].
outer(xyz) ==
    [R \in 1..(3 * Len(xyz)) |->
        [C \in 1..(3 * Len(xyz)) |->
            LET b == AtomOf(R)
                i == AtomOf(C)
            IN (xyz[b][AxisOf(C)] - xyz[i][AxisOf(C)])
               * (xyz[b][AxisOf(R)] - xyz[i][AxisOf(R)])]]

\* id2: eye(3) tiled N by N times
id2(n) == [R \in 1..(3 * n) |-> [C \in 1..(3 * n) |-> IF AxisOf(R) = AxisOf(C) THEN 1 ELSE 0]]

\* _get_r_data(xyz) = (r_mat, t01, t21, t22)
_get_r_data(xyz) ==
    LET n_atoms == Len(xyz)
        r_mat == cdist(xyz)
        r_inv2 == repeat_interleave3(r_inv(r_mat))
    IN [r_mat |-> r_mat,
        t01 |-> r_inv(r_mat),
        t21 |-> [R \in 1..(3 * n_atoms) |->
                    [C \in 1..(3 * n_atoms) |->
                        RMul(FromInt(-id2(n_atoms)[R][C]), RPow(r_inv2[R][C], 3))]],
        t22 |-> [R \in 1..(3 * n_atoms) |->
                    [C \in 1..(3 * n_atoms) |->
                        RMul(FromInt(3 * outer(xyz)[R][C]), RPow(r_inv2[R][C], 5))]]]

\* _lambda3(au3) = 1 - exp(-au3)
_lambda3(au3) == RSub(FromInt(1), exp_neg(au3))

\* _lambda5(au3) = 1 - (1 + au3) * exp(-au3)
_lambda5(au3) == RSub(FromInt(1), RMul(RAdd(FromInt(1), au3), exp_neg(au3)))

\* _get_T2_thole(tr21, tr22, au3)
_get_T2_thole(tr21, tr22, au3) ==
    [R \in 1..Len(tr21) |->
        [C \in 1..Len(tr21) |->
            RAdd(RMul(_lambda3(au3[R][C]), tr21[R][C]),
                 RMul(_lambda5(au3[R][C]), tr22[R][C]))]]
\* The matrix with the damping of a pair taken from the polarizability of
\* the row atom alone: alphap[:, None] squared in place of the product.
_get_A_thole_row_damping(r_data, s, q_val, k, a_Thole) ==
    LET n == Len(s)
        alpha == [i \in 1..n |->
                     RMul(RMul(RMul(FromInt(-60), q_val[i]), RPow(s[i], 3)), k[i])]
        alphap == [i \in 1..n |-> RMul(alpha[i], a_Thole)]
        au3 == [i \in 1..n |-> [j \in 1..n |->
                   RDiv(RPow(r_data.r_mat[i][j], 3), Sqrt(RMul(alphap[i], alphap[i])))]]
        T2 == _get_T2_thole(r_data.t21, r_data.t22, repeat_interleave3(au3))
    IN [R \in 1..(3 * n) |-> [C \in 1..(3 * n) |->
           IF R = C THEN RDiv(FromInt(1), alpha[AtomOf(R)]) ELSE RNeg(T2[R][C])]]

\* The matrix as -T2 alone, its diagonal left as the kernel gives it.
_get_A_thole_raw_diagonal(r_data, s, q_val, k, a_Thole) ==
    LET n == Len(s)
        alpha == [i \in 1..n |->
                     RMul(RMul(RMul(FromInt(-60), q_val[i]), RPow(s[i], 3)), k[i])]
        alphap == [i \in 1..n |-> RMul(alpha[i], a_Thole)]
        au3 == [i \in 1..n |-> [j \in 1..n |->
                   RDiv(RPow(r_data.r_mat[i][j], 3), Sqrt(RMul(alphap[i], alphap[j])))]]
        T2 == _get_T2_thole(r_data.t21, r_data.t22, repeat_interleave3(au3))
    IN [R \in 1..(3 * n) |-> [C \in 1..(3 * n) |-> RNeg(T2[R][C])]]

\* _get_A_thole(r_data, s, q_val, k)
_get_A_thole(r_data, s, q_val, k, a_Thole) ==
    LET n == Len(s)
        v == [i \in 1..n |-> RMul(RMul(FromInt(-60), q_val[i]), RPow(s[i], 3))]
        alpha == [i \in 1..n |-> RMul(v[i], k[i])]
        alphap == [i \in 1..n |-> RMul(alpha[i], a_Thole)]
        alphap_mat == [i \in 1..n |-> [j \in 1..n |-> RMul(alphap[i], alphap[j])]]
        au3 == [i \in 1..n |-> [j \in 1..n |->
                   RDiv(RPow(r_data.r_mat[i][j], 3), Sqrt(alphap_mat[i][j]))]]
        au32 == repeat_interleave3(au3)
        T2 == _get_T2_thole(r_data.t21, r_data.t22, au32)
        new_diag == [R \in 1..(3 * n) |-> RDiv(FromInt(1), alpha[AtomOf(R)])]
        mask == [R \in 1..(3 * n) |-> [C \in 1..(3 * n) |-> IF R = C THEN 1 ELSE 0]]
    IN [R \in 1..(3 * n) |->
           [C \in 1..(3 * n) |->
               RAdd(RMul(FromInt(mask[R][C]),
                         IF R = C THEN new_diag[R] ELSE FromInt(0)),
                    RMul(FromInt(1 - mask[R][C]), RNeg(T2[R][C])))]]

\* The determinant of a matrix of finite entries by elimination, as the LU
\* factorisation of the solver finds it: zero exactly when a pivot column
\* holds no entry other than zero.
RECURSIVE RDet(_)
RDet(M) ==
    IF Len(M) = 0 THEN FromInt(1)
    ELSE IF \A i \in 1..Len(M) : M[i][1] = FromInt(0) THEN FromInt(0)
    ELSE LET n == Len(M)
             p == CHOOSE i \in 1..n :
                      M[i][1] # FromInt(0) /\ \A j \in 1..(i - 1) : M[j][1] = FromInt(0)
             row(i) == IF i < p THEN i ELSE i + 1
             rest == [i \in 1..(n - 1) |->
                         [j \in 1..(n - 1) |->
                             RSub(M[row(i)][j + 1],
                                  RMul(RDiv(M[row(i)][1], M[p][1]), M[p][j + 1]))]]
         IN RMul(RMul(FromInt(IF p % 2 = 1 THEN 1 ELSE -1), M[p][1]), RDet(rest))

\* Whether torch.linalg.solve(A, fields) raises: it does on a matrix of
\* finite entries that is singular; entries that are inf or nan pass
\* through the factorisation into the solution.
linalg_solve_status(A) ==
    IF \E R, C \in 1..Len(A) : ~IsFinite(A[R][C]) THEN "ok"
    ELSE IF RDet(A) = FromInt(0) THEN "LinAlgError"
    ELSE "ok"

\* Positions of QM atoms, in Bohr.
Positions == {<<0, 0, 0>>, <<3, 4, 0>>, <<0, 4, 0>>, <<1, 2, 2>>}

IsSquare(n) == \E r \in 0..n : r * r = n

\* Geometries of n atoms, two atoms at one position included, whose
\* distances are all whole numbers.
Geometries(n) ==
    {xyz \in [1..n -> Positions] :
        \A i, j \in 1..n :
            IsSquare(Dot([c \in 1..3 |-> xyz[i][c] - xyz[j][c]],
                         [c \in 1..3 |-> xyz[i][c] - xyz[j][c]]))}

\* Width, valence charge and scaling factor of an atom; the polarizability
\* -60 q_val s^3 k comes to 1, 4, 4 and 0.
AtomStates ==
    {[s |-> FromInt(1), q_val |-> Rat(-1, 60), k |-> FromInt(1)],
     [s |-> FromInt(1), q_val |-> Rat(-1, 15), k |-> FromInt(1)],
     [s |-> FromInt(2), q_val |-> Rat(-1, 480), k |-> FromInt(4)],
     [s |-> FromInt(1), q_val |-> FromInt(0), k |-> FromInt(1)]}

TholeInputs ==
    UNION {{[xyz |-> xyz, s |-> [i \in 1..n |-> a[i].s],
             q_val |-> [i \in 1..n |-> a[i].q_val], k |-> [i \in 1..n |-> a[i].k]] :
               xyz \in Geometries(n), a \in [1..n -> AtomStates]} :
           n \in 1..MaxAtoms}

InitThole ==
    /\ thole_in \in TholeInputs
    /\ thole_out = NoResult
    /\ EngineUnused
    /\ GPRUnused
    /\ QEqUnused
    /\ EnergyUnused
    /\ ObjectUnused
    /\ AEVUnused
    /\ SanderUnused

\* r_data = self._get_r_data(xyz); A = self._get_A_thole(r_data, s, q_val, k)
Get_A_thole ==
    /\ thole_out.status = "none"
    /\ LET r_data == _get_r_data(thole_in.xyz)
       IN thole_out' =
              [status |-> "ok", r_data |-> r_data,
               A |-> _get_A_thole(r_data, thole_in.s, thole_in.q_val, thole_in.k,
                                  FromInt(ResourceFile("species").a_Thole)),
               solve |-> "none"]
    /\ UNCHANGED <<thole_in, engine_vars, gpr_vars, qeq_vars, energy_vars, object_vars,
                 aev_vars, sander_vars>>

\* A matrix whose elimination needs no arithmetic: no entry off the
\* diagonal, or an entry that is not finite.
Eliminable(A) ==
    \/ \E R, C \in 1..Len(A) : ~IsFinite(A[R][C])
    \/ \A R, C \in 1..Len(A) : R # C => A[R][C] = FromInt(0)

\* mu_ind = torch.linalg.solve(A, fields) in _get_mu_ind, followed for the
\* matrices whose elimination the integers of the model can carry out.
Solve_mu_ind ==
    /\ thole_out.status = "ok"
    /\ thole_out.solve = "none"
    /\ Eliminable(thole_out.A)
    /\ thole_out' = [thole_out EXCEPT !.solve = linalg_solve_status(thole_out.A)]
    /\ UNCHANGED <<thole_in, engine_vars, gpr_vars, qeq_vars, energy_vars, object_vars,
                 aev_vars, sander_vars>>

NextThole == Get_A_thole \/ Solve_mu_ind

SpecThole == InitThole /\ [][NextThole]_vars

\* The polarizability alpha_i = -60 q_val_i s_i^3 k_i of atom i.
Polarizability(i) ==
    RMul(RMul(RMul(FromInt(-60), thole_in.q_val[i]), RPow(thole_in.s[i], 3)),
         thole_in.k[i])

DistinctPositions == \A i, j \in 1..Len(thole_in.xyz) : i # j => thole_in.xyz[i] # thole_in.xyz[j]

PositivePolarizabilities == \A i \in 1..Len(thole_in.xyz) : Polarizability(i)[1] > 0

NonZeroPolarizabilities == \A i \in 1..Len(thole_in.xyz) : Polarizability(i)[1] # 0

\* C11: for distinct atom positions and positive polarizabilities the Thole
\* matrix is symmetric: entry (3a+j, 3b+k) equals entry (3b+k, 3a+j).
C11_TholeSymmetric ==
    (thole_out.status = "ok" /\ DistinctPositions /\ PositivePolarizabilities) =>
        \A R, C \in 1..Len(thole_out.A) :
            /\ IsFinite(thole_out.A[R][C])
            /\ thole_out.A[R][C] = thole_out.A[C][R]

\* Two atoms of different polarizability off the coordinate axes, with a
\* non-zero coupling between different axes.
C11_Witness ==
    /\ thole_out.status = "ok"
    /\ Len(thole_in.xyz) = 2
    /\ DistinctPositions
    /\ PositivePolarizabilities
    /\ Polarizability(1) # Polarizability(2)
    /\ thole_out.A[1][5] # FromInt(0)
    /\ thole_out.A[1][5] = thole_out.A[5][1]

\* C12: the diagonal 3x3 block of atom i is 1/alpha_i times the identity,
\* alpha_i = -60 q_val_i s_i^3 k_i (not zero), whatever the positions are.
C12_TholeDiagonalBlocks ==
    (thole_out.status = "ok" /\ NonZeroPolarizabilities) =>
        \A R, C \in 1..Len(thole_out.A) :
            AtomOf(R) = AtomOf(C) =>
                thole_out.A[R][C] = IF R = C
                                    THEN RDiv(FromInt(1), Polarizability(AtomOf(R)))
                                    ELSE FromInt(0)

\* Two atoms of polarizabilities 4 and 1 coupled to each other.
C12_Witness ==
    /\ thole_out.status = "ok"
    /\ Len(thole_in.xyz) = 2
    /\ DistinctPositions
    /\ thole_out.A[1][1] = Rat(1, 4)
    /\ thole_out.A[4][4] = FromInt(1)
    /\ thole_out.A[1][2] = FromInt(0)
    /\ thole_out.A[1][4] # FromInt(0)

\* C17: when two atoms coincide or an atom has zero polarizability, the
\* solve of the induced dipoles raises an error: forward is left through
\* the error and returns no energy computed from a solution.
C17_UnsolvableSystemRaises ==
    (/\ thole_out.status = "ok"
     /\ thole_out.solve # "none"
     /\ ~DistinctPositions \/ ~NonZeroPolarizabilities) =>
        thole_out.solve = "LinAlgError"

\* C18: the inverse distances of the pair tensors are set to zero for the
\* pairs i == j, found by their index, and are 1 / r for every other pair
\* whatever its distance: no entry is chosen by testing a distance for
\* zero.
C18_SelfPairsByIndex ==
    thole_out.status = "ok" =>
        thole_out.r_data.t01 = r_inv_by_index(thole_out.r_data.r_mat)

\* C22: the two flattened dipole tensors of _get_r_data are laid out
\* atom-major.  For all atoms a, b and axes j, k, entry (3 a + j, 3 b + k)
\* of the first is -delta(j, k) r_inv[a, b]^3 and of the second is
\* 3 (x_a - x_b)_j (x_a - x_b)_k r_inv[a, b]^5, where r_inv is the matrix
\* of inverse distances the function returns with them: 0 for a = b and
\* 1 / r for a pair at distance r.
C22_DipoleTensorsAtomMajor ==
    thole_out.status = "ok" =>
        LET xyz == thole_in.xyz
            N == Len(xyz)
            t == thole_out.r_data
        IN /\ Len(t.t21) = 3 * N /\ Len(t.t22) = 3 * N
           /\ \A a, b \in 1..N :
                  /\ a = b => t.t01[a][b] = FromInt(0)
                  /\ t.r_mat[a][b] # FromInt(0) =>
                         t.t01[a][b] = RDiv(FromInt(1), t.r_mat[a][b])
                  /\ \A j, k \in 1..3 :
                         LET R == 3 * (a - 1) + j
                             C == 3 * (b - 1) + k
                         IN /\ t.t21[R][C] =
                                   RMul(FromInt(IF j = k THEN -1 ELSE 0),
                                        RPow(t.t01[a][b], 3))
                            /\ t.t22[R][C] =
                                   RMul(FromInt(3 * (xyz[a][j] - xyz[b][j])
                                                  * (xyz[a][k] - xyz[b][k])),
                                        RPow(t.t01[a][b], 5))

\* Two atoms apart along two axes: an entry of the second tensor between
\* different axes of different atoms is not zero.
C22_Witness ==
    /\ thole_out.status = "ok"
    /\ Len(thole_in.xyz) = 2
    /\ thole_out.r_data.t22[1][5] # FromInt(0)
    /\ thole_out.r_data.t21[1][4] # FromInt(0)

(***************************************************************************)
(* The charge equilibration matrix as a function of the geometry and of    *)
(* the widths (EMLE._get_A_QEq on the pair tensors of _get_r_data).  The   *)
(* widths and a_QEq are 1 or 7 Bohr, so that sqrt(2 (s_i^2 + s_j^2)) is a  *)
(* whole number.  erf is followed through x / (1 + x), which agrees with   *)
(* it at 0, grows with x and tends to 1; sqrt(pi) is 16 / 9.               *)
(***************************************************************************)
\* torch.sqrt(torch.tensor([torch.pi]))
sqrt_pi == Rat(16, 9)

\* torch.erf, for x >= 0
erf(x) == RDiv(x, RAdd(FromInt(1), x))

\* s_gauss = s * self._a_QEq
s_gauss(s, a_QEq) == [i \in 1..Len(s) |-> RMul(s[i], a_QEq)]

\* s_mat * sqrt(2), with s_mat = sqrt(s2[:, None] + s2[None, :]) and
\* s2 = s_gauss ** 2: the denominator of the argument of erf.
s_mat_sqrt2(sg) ==
    [i \in 1..Len(sg) |->
        [j \in 1..Len(sg) |->
            Sqrt(RMul(FromInt(2), RAdd(RMul(sg[i], sg[i]), RMul(sg[j], sg[j]))))]]

\* _get_T0_gaussian(t01, r, s_mat) = t01 * erf(r / (s_mat * sqrt(2)))
_get_T0_gaussian(t01, r, sm2) ==
    [i \in 1..Len(r) |->
        [j \in 1..Len(r) |-> RMul(t01[i][j], erf(RDiv(r[i][j], sm2[i][j])))]]

\* new_diag = 1.0 / (s_gauss * sqrt(pi))
new_diag(sg) == [i \in 1..Len(sg) |-> RDiv(FromInt(1), RMul(sg[i], sqrt_pi))]

\* The matrix whose diagonal is left as _get_T0_gaussian computed it from
\* the distance matrix.
QEq_matrix_distance_diagonal(r_data, s, a_QEq) ==
    LET sg == s_gauss(s, a_QEq)
        A == _get_T0_gaussian(r_data.t01, r_data.r_mat, s_mat_sqrt2(sg))
        x == Len(A)
    IN [i \in 1..(x + 1) |->
           [j \in 1..(x + 1) |->
               IF i = x + 1 /\ j = x + 1 THEN FromInt(0)
               ELSE IF i <= x /\ j <= x THEN A[i][j]
               ELSE FromInt(1)]]

\* _get_A_QEq(r_data, s): A = mask * diag(new_diag) + (1 - mask) * A, then
\* B = ones(x + 1, y + 1); B[:x, :y] = A; B[-1, -1] = 0.0
QEq_matrix(r_data, s, a_QEq) ==
    LET sg == s_gauss(s, a_QEq)
        T0 == _get_T0_gaussian(r_data.t01, r_data.r_mat, s_mat_sqrt2(sg))
        x == Len(T0)
        mask == [i \in 1..x |-> [j \in 1..x |-> IF i = j THEN 1 ELSE 0]]
        A == [i \in 1..x |->
                 [j \in 1..x |->
                     RAdd(RMul(FromInt(mask[i][j]),
                               IF i = j THEN new_diag(sg)[i] ELSE FromInt(0)),
                          RMul(FromInt(1 - mask[i][j]), T0[i][j]))]]
    IN [i \in 1..(x + 1) |->
           [j \in 1..(x + 1) |->
               IF i = x + 1 /\ j = x + 1 THEN FromInt(0)
               ELSE IF i <= x /\ j <= x THEN A[i][j]
               ELSE FromInt(1)]]

\* Widths of the valence shells and values of a_QEq.
Widths == {FromInt(1), FromInt(7)}

QEqMatrixInputs ==
    UNION {{[xyz |-> xyz, s |-> s, a_QEq |-> a] :
               xyz \in Geometries(n), s \in [1..n -> Widths], a \in Widths} :
           n \in 1..MaxAtoms}

InitQEqMatrix ==
    /\ qeq_in \in QEqMatrixInputs
    /\ qeq_out = NoResult
    /\ EngineUnused
    /\ GPRUnused
    /\ TholeUnused
    /\ EnergyUnused
    /\ ObjectUnused
    /\ AEVUnused
    /\ SanderUnused

\* r_data = self._get_r_data(xyz); A = self._get_A_QEq(r_data, s)
Get_A_QEq ==
    /\ qeq_out.status = "none"
    /\ qeq_out' = [status |-> "ok",
                   value |-> QEq_matrix(_get_r_data(qeq_in.xyz), qeq_in.s, qeq_in.a_QEq)]
    /\ UNCHANGED <<qeq_in, engine_vars, gpr_vars, thole_vars, energy_vars, object_vars,
                 aev_vars, sander_vars>>

NextQEqMatrix == Get_A_QEq

SpecQEqMatrix == InitQEqMatrix /\ [][NextQEqMatrix]_vars

\* C21: the QEq matrix is (N + 1) x (N + 1) and symmetric; its last row and
\* its last column are ones but for a zero corner; and for every geometry,
\* coincident atoms included, diagonal entry i is the self-energy
\* 1 / (s_i sqrt(pi)) of the Gaussian-broadened width s_i = s * a_QEq of
\* atom i, whatever the distance matrix holds.
C21_QEqMatrixShape ==
    qeq_out.status = "ok" =>
        LET B == qeq_out.value
            N == Len(qeq_in.xyz)
        IN /\ Len(B) = N + 1
           /\ \A i \in 1..(N + 1) : Len(B[i]) = N + 1
           /\ \A i, j \in 1..(N + 1) : B[i][j] = B[j][i]
           /\ \A i \in 1..N : B[i][N + 1] = FromInt(1) /\ B[N + 1][i] = FromInt(1)
           /\ B[N + 1][N + 1] = FromInt(0)
           /\ \A i \in 1..N :
                  B[i][i] = RDiv(FromInt(1),
                                 RMul(RMul(qeq_in.s[i], qeq_in.a_QEq), sqrt_pi))

\* Two atoms of different widths at one position, a_QEq other than one.
C21_Witness ==
    /\ qeq_out.status = "ok"
    /\ Len(qeq_in.xyz) = 2
    /\ qeq_in.xyz[1] = qeq_in.xyz[2]
    /\ qeq_in.s[1] # qeq_in.s[2]
    /\ qeq_in.a_QEq # FromInt(1)
    /\ qeq_out.value[1][1] # qeq_out.value[2][2]

(***************************************************************************)
(* The energies: the mesh between the QM atoms and the external charges,   *)
(* the potentials of the charges and of the induced dipoles on it, and the *)
(* static and the induced energy.  Positions are in Bohr.                  *)
(***************************************************************************)
\* _get_T0_slater(r, s) = (1 - (1 + r / (s * 2)) * exp(-r / s)) / r
_get_T0_slater(r, s) ==
    RDiv(RSub(FromInt(1),
              RMul(RAdd(FromInt(1), RDiv(r, RMul(s, FromInt(2)))),
                   exp_neg(RDiv(r, s)))),
         r)

\* rr = xyz_mesh[None, :, :] - xyz[:, None, :]
mesh_rr(xyz, xyz_mesh) ==
    [i \in 1..Len(xyz) |->
        [m \in 1..Len(xyz_mesh) |-> [c \in 1..3 |-> xyz_mesh[m][c] - xyz[i][c]]]]

\* _get_mesh_data(xyz, xyz_mesh, s) = (1 / r, T0_slater(r, s), -rr / r^3)
_get_mesh_data(xyz, xyz_mesh, s) ==
    LET rr == mesh_rr(xyz, xyz_mesh)
        r == [i \in 1..Len(xyz) |->
                 [m \in 1..Len(xyz_mesh) |-> Sqrt(FromInt(Dot(rr[i][m], rr[i][m])))]]
    IN <<[i \in 1..Len(xyz) |->
             [m \in 1..Len(xyz_mesh) |-> RDiv(FromInt(1), r[i][m])]],
         [i \in 1..Len(xyz) |->
             [m \in 1..Len(xyz_mesh) |-> _get_T0_slater(r[i][m], s[i])]],
         [i \in 1..Len(xyz) |->
             [m \in 1..Len(xyz_mesh) |->
                 [c \in 1..3 |-> RDiv(FromInt(-rr[i][m][c]), RPow(r[i][m], 3))]]]>>

\* _get_vpot_q(q, T0) = sum(T0 * q[:, None], dim=0)
_get_vpot_q(q, T0) ==
    [m \in 1..Len(T0[1]) |-> RSum([i \in 1..Len(q) |-> RMul(T0[i][m], q[i])])]

\* _get_vpot_mu(mu, T1) = -tensordot(T1, mu, ((0, 2), (0, 1)))
_get_vpot_mu(mu, T1) ==
    [m \in 1..Len(T1[1]) |->
        RNeg(RSum([i \in 1..Len(mu) |->
                      RSum([c \in 1..3 |-> RMul(T1[i][m][c], mu[i][c])])]))]

\* v @ w of two vectors of one length
matmul(v, w) == RSum([m \in 1..Len(v) |-> RMul(v[m], w[m])])

\* forward with a static energy of the core charges alone.
forward_energies_core_only(q_core, q, mu_ind, mesh_data, charges_mm) ==
    LET q_val == [i \in 1..Len(q) |-> RSub(q[i], q_core[i])]
        vpot_static == _get_vpot_q(q_core, mesh_data[1])
        vpot_ind == _get_vpot_mu(mu_ind, mesh_data[3])
    IN [q_val |-> q_val,
        E_static |-> matmul(vpot_static, charges_mm),
        E_ind |-> RMul(matmul(vpot_ind, charges_mm), Rat(1, 2))]

\* forward with the valence charges on the undamped mesh as well.
forward_energies_one_mesh(q_core, q, mu_ind, mesh_data, charges_mm) ==
    LET q_val == [i \in 1..Len(q) |-> RSub(q[i], q_core[i])]
        vpot_q_core == _get_vpot_q(q_core, mesh_data[1])
        vpot_q_val == _get_vpot_q(q_val, mesh_data[1])
        vpot_static == [m \in 1..Len(vpot_q_core) |-> RAdd(vpot_q_core[m], vpot_q_val[m])]
        vpot_ind == _get_vpot_mu(mu_ind, mesh_data[3])
    IN [q_val |-> q_val,
        E_static |-> matmul(vpot_static, charges_mm),
        E_ind |-> RMul(matmul(vpot_ind, charges_mm), Rat(1, 2))]

\* forward from q_val = q - q_core to the two energies, given the charges q
\* of _get_q and the dipoles mu_ind of _get_mu_ind.
forward_energies(q_core, q, mu_ind, mesh_data, charges_mm) ==
    LET q_val == [i \in 1..Len(q) |-> RSub(q[i], q_core[i])]
        vpot_q_core == _get_vpot_q(q_core, mesh_data[1])
        vpot_q_val == _get_vpot_q(q_val, mesh_data[2])
        vpot_static == [m \in 1..Len(vpot_q_core) |-> RAdd(vpot_q_core[m], vpot_q_val[m])]
        vpot_ind == _get_vpot_mu(mu_ind, mesh_data[3])
    IN [q_val |-> q_val,
        E_static |-> matmul(vpot_static, charges_mm),
        E_ind |-> RMul(matmul(vpot_ind, charges_mm), Rat(1, 2))]

\* QM atoms: hydrogen and oxygen at one of two positions, with the width,
\* the electronegativity and the self-interaction term predicted for them
\* and the dipole induced on them.
EnergyAtoms ==
    {[xyz |-> p, q_core |-> 1, s |-> 1, chi |-> 1, new_diag |-> 2,
      mu |-> <<1, 0, -1>>] : p \in {<<0, 0, 0>>, <<3, 4, 0>>}}
    \cup
    {[xyz |-> p, q_core |-> 6, s |-> 2, chi |-> -1, new_diag |-> 3,
      mu |-> <<0, 2, 1>>] : p \in {<<0, 0, 0>>, <<3, 4, 0>>}}

\* External charges, each at a whole distance from every QM position.
EnergySites ==
    {[xyz |-> <<0, 4, 0>>, charge |-> 1],
     [xyz |-> <<0, 4, 0>>, charge |-> -2],
     [xyz |-> <<3, 0, 0>>, charge |-> -2]}

EnergyInputs ==
    {[atoms |-> a, sites |-> m] :
        a \in SeqsUpTo(EnergyAtoms, MaxAtoms), m \in SeqsUpTo(EnergySites, MaxAtoms)}

InitEnergy ==
    /\ energy_in \in EnergyInputs
    /\ energy_out = NoResult
    /\ EngineUnused
    /\ GPRUnused
    /\ QEqUnused
    /\ TholeUnused
    /\ ObjectUnused
    /\ AEVUnused
    /\ SanderUnused

\* The atoms of the call, field by field
AtomField(f) == [i \in 1..Len(energy_in.atoms) |-> energy_in.atoms[i][f]]

SiteField(f) == [m \in 1..Len(energy_in.sites) |-> energy_in.sites[m][f]]

RVector(v) == [i \in 1..Len(v) |-> FromInt(v[i])]

\* The damped Coulomb matrix of the QEq system: 1 between atoms at
\* different positions, 0 where _get_r_data gave the inverse distance 0.
EnergyT0 ==
    [i \in 1..Len(energy_in.atoms) |->
        [j \in 1..Len(energy_in.atoms) |->
            IF energy_in.atoms[i].xyz = energy_in.atoms[j].xyz THEN 0 ELSE 1]]

\* forward from the QEq solve on: q, q_val and the two energies.
Energies ==
    /\ energy_out.status = "none"
    /\ LET q == _get_q(ResourceFile("species").total_charge, EnergyT0,
                       AtomField("new_diag"), AtomField("chi"))
           mesh_data == _get_mesh_data(AtomField("xyz"), SiteField("xyz"),
                                       RVector(AtomField("s")))
           mu_ind == [i \in 1..Len(energy_in.atoms) |-> RVector(energy_in.atoms[i].mu)]
       IN energy_out' =
              IF q.status # "ok" THEN q
              ELSE LET e == forward_energies(RVector(AtomField("q_core")), q.value,
                                             mu_ind, mesh_data,
                                             RVector(SiteField("charge")))
                   IN [status |-> "ok", q |-> q.value, q_val |-> e.q_val,
                       value |-> <<e.E_static, e.E_ind>>]
    /\ UNCHANGED <<energy_in, engine_vars, gpr_vars, qeq_vars, thole_vars, object_vars,
                 aev_vars, sander_vars>>

NextEnergy == Energies

SpecEnergy == InitEnergy /\ [][NextEnergy]_vars

\* The distance between QM atom i and external site m
Distance(i, m) ==
    Sqrt(FromInt(Dot([c \in 1..3 |-> energy_in.sites[m].xyz[c] - energy_in.atoms[i].xyz[c]],
                     [c \in 1..3 |-> energy_in.sites[m].xyz[c] - energy_in.atoms[i].xyz[c]])))

\* The sum of t(i, m) over all pairs of a QM atom i and an external site m
RECURSIVE PairSum(_, _, _)
PairSum(t(_, _), i, m) ==
    IF i = 0 THEN FromInt(0)
    ELSE IF m = 0 THEN PairSum(t, i - 1, Len(energy_in.sites))
    ELSE RAdd(t(i, m), PairSum(t, i, m - 1))

\* The interaction of the core charge of atom i with the charge at site m
BareCoulomb(i, m) ==
    RDiv(FromInt(energy_in.atoms[i].q_core * energy_in.sites[m].charge), Distance(i, m))

\* The interaction of the valence charge of atom i, damped, with site m
DampedValence(i, m) ==
    RMul(RMul(RSub(energy_out.q[i], FromInt(energy_in.atoms[i].q_core)),
              _get_T0_slater(Distance(i, m), FromInt(energy_in.atoms[i].s))),
         FromInt(energy_in.sites[m].charge))

\* The interaction of the dipole of atom i with the charge at site m
DipoleCharge(i, m) ==
    RDiv(FromInt(energy_in.sites[m].charge
                 * Dot(energy_in.atoms[i].mu,
                       [c \in 1..3 |-> energy_in.sites[m].xyz[c] - energy_in.atoms[i].xyz[c]])),
         RPow(Distance(i, m), 3))

StaticPair(i, m) == RAdd(BareCoulomb(i, m), DampedValence(i, m))

\* C13: for the two QM atoms H and O and one external unit charge the
\* static energy is the bare Coulomb interaction of the core charges with
\* the external charge; valence charges and polarization add nothing.
C13_StaticEnergyIsBareCoulomb ==
    (/\ energy_out.status = "ok"
     /\ AtomField("q_core") = <<1, 6>>
     /\ SiteField("charge") = <<1>>) =>
        energy_out.value[1] = RAdd(BareCoulomb(1, 1), BareCoulomb(2, 1))

\* C13 as the code has it: for the two QM atoms H and O and one external
\* unit charge the static energy is the bare Coulomb interaction of the
\* core charges with the external charge plus the Slater-damped
\* interaction of the valence charges q - q_core of the QEq solution with
\* it; the induced dipoles add nothing to it.
C13_StaticEnergyWithValence ==
    (/\ energy_out.status = "ok"
     /\ AtomField("q_core") = <<1, 6>>
     /\ SiteField("charge") = <<1>>) =>
        /\ RSub(energy_out.value[1], RAdd(BareCoulomb(1, 1), BareCoulomb(2, 1)))
               = RAdd(DampedValence(1, 1), DampedValence(2, 1))
        /\ energy_out.value[1]
               = RSum([i \in 1..2 |->
                          RAdd(RDiv(FromInt(energy_in.atoms[i].q_core), Distance(i, 1)),
                               RMul(energy_out.q_val[i],
                                    _get_T0_slater(Distance(i, 1),
                                                   FromInt(energy_in.atoms[i].s))))])

\* Hydrogen and oxygen at different positions and one unit charge: the
\* valence charges shift the static energy away from the bare Coulomb term.
C13_Witness ==
    /\ energy_out.status = "ok"
    /\ AtomField("q_core") = <<1, 6>>
    /\ SiteField("charge") = <<1>>
    /\ energy_in.atoms[1].xyz # energy_in.atoms[2].xyz
    /\ RSum(energy_out.q) = FromInt(0)
    /\ RAdd(DampedValence(1, 1), DampedValence(2, 1)) # FromInt(0)
    /\ energy_out.value[1] # RAdd(BareCoulomb(1, 1), BareCoulomb(2, 1))

\* C14: q_val is q - q_core; the static energy is the sum over the external
\* sites of the charge there times the potential of the core charges
\* through 1 / r plus the potential of the valence charges through the
\* Slater-damped mesh; the induced energy is half the sum of the charges
\* times the potential of the induced dipoles, and the static energy is the
\* same whatever the dipoles are.
C14_EnergyComposition ==
    energy_out.status = "ok" =>
        LET n == Len(energy_in.atoms)
            M == Len(energy_in.sites)
            no_dipoles == forward_energies(
                              RVector(AtomField("q_core")), energy_out.q,
                              [i \in 1..n |-> RVector(<<0, 0, 0>>)],
                              _get_mesh_data(AtomField("xyz"), SiteField("xyz"),
                                             RVector(AtomField("s"))),
                              RVector(SiteField("charge")))
        IN /\ \A i \in 1..n :
                 energy_out.q_val[i] = RSub(energy_out.q[i], FromInt(energy_in.atoms[i].q_core))
           /\ energy_out.value[1] = PairSum(StaticPair, n, M)
           /\ energy_out.value[2] = RMul(Rat(1, 2), PairSum(DipoleCharge, n, M))
           /\ no_dipoles.E_static = energy_out.value[1]
           /\ no_dipoles.E_ind = FromInt(0)

\* Hydrogen and oxygen with two external charges: the valence charges and
\* the dipoles contribute to the energies.
C14_Witness ==
    /\ energy_out.status = "ok"
    /\ AtomField("q_core") = <<1, 6>>
    /\ Len(energy_in.sites) = 2
    /\ energy_in.atoms[1].xyz # energy_in.atoms[2].xyz
    /\ energy_out.q_val[1] # FromInt(0)
    /\ energy_out.value[1] # PairSum(BareCoulomb, 2, 2)
    /\ energy_out.value[2] # FromInt(0)

(***************************************************************************)
(* The induced dipoles (EMLE._get_mu_ind): the Thole matrix, the field of  *)
(* the external charges on the QM atoms, flattened, the solve and the      *)
(* reshape of its solution.  The QM atoms stand on a line, 4 Bohr apart,   *)
(* and the external charges where all their distances to the atoms are     *)
(* whole numbers.  One atom and two atoms are followed: the dipoles of     *)
(* three coupled atoms are fractions beyond the integers of the model.     *)
(***************************************************************************)
\* _get_f1_slater(r, s) =
\*     T0_slater(r, s) * r - exp(-r / s) / s * (0.5 + r / (s * 2)) * r
_get_f1_slater(r, s) ==
    RSub(RMul(_get_T0_slater(r, s), r),
         RMul(RMul(RDiv(exp_neg(RDiv(r, s)), s),
                   RAdd(Rat(1, 2), RDiv(r, RMul(s, FromInt(2))))),
              r))

\* torch.sum(mesh_data[2] * f1[:, :, None] * q[:, None], dim=1), of shape
\* (N, 3), with r = 1.0 / mesh_data[0] and f1 = _get_f1_slater(r, s[:, None] * 2.0)
summed_fields(mesh_data, q, s) ==
    LET r == [i \in 1..Len(s) |->
                 [m \in 1..Len(q) |-> RDiv(FromInt(1), mesh_data[1][i][m])]]
        f1 == [i \in 1..Len(s) |->
                  [m \in 1..Len(q) |-> _get_f1_slater(r[i][m], RMul(s[i], FromInt(2)))]]
    IN [i \in 1..Len(s) |->
           [c \in 1..3 |->
               RSum([m \in 1..Len(q) |->
                        RMul(RMul(mesh_data[3][i][m][c], f1[i][m]), FromInt(q[m]))])]]

\* A flattening that runs over the atoms first: t.T.flatten()
flatten_axis_major(t) ==
    [R \in 1..(3 * Len(t)) |-> t[((R - 1) % Len(t)) + 1][((R - 1) \div Len(t)) + 1]]

\* tensor.flatten() of a tensor of shape (N, 3)
flatten(t) == [R \in 1..(3 * Len(t)) |-> t[AtomOf(R)][AxisOf(R)]]

\* tensor.reshape((-1, 3)) of a vector
reshape3(v) == [a \in 1..(Len(v) \div 3) |-> [j \in 1..3 |-> v[3 * (a - 1) + j]]]

\* The solution of A x = b by elimination with the first pivot that is not
\* zero; <<>> stands for no solution when the matrix is not empty.
RECURSIVE Eliminate(_, _)
Eliminate(A, b) ==
    IF Len(A) = 0 THEN [singular |-> FALSE, x |-> <<>>]
    ELSE IF \A i \in 1..Len(A) : A[i][1] = FromInt(0) THEN [singular |-> TRUE, x |-> <<>>]
    ELSE LET n == Len(A)
             p == CHOOSE i \in 1..n :
                      A[i][1] # FromInt(0) /\ \A j \in 1..(i - 1) : A[j][1] = FromInt(0)
             row(i) == IF i < p THEN i ELSE i + 1
             f(i) == RDiv(A[row(i)][1], A[p][1])
             rest == [i \in 1..(n - 1) |->
                         [j \in 1..(n - 1) |->
                             RSub(A[row(i)][j + 1], RMul(f(i), A[p][j + 1]))]]
             restb == [i \in 1..(n - 1) |-> RSub(b[row(i)], RMul(f(i), b[p]))]
             y == Eliminate(rest, restb)
         IN IF y.singular THEN y
            ELSE [singular |-> FALSE,
                  x |-> <<RDiv(RSub(b[p],
                                    RSum([j \in 1..(n - 1) |->
                                             RMul(A[p][j + 1], y.x[j])])),
                               A[p][1])>> \o y.x]

\* torch.linalg.solve(A, b) on rationals: LinAlgError on a singular matrix
\* of finite entries; entries that are not finite pass into the solution.
linalg_solve_rational(A, b) ==
    IF \E R, C \in 1..Len(A) : ~IsFinite(A[R][C])
    THEN [status |-> "ok", value |-> [R \in 1..Len(A) |-> NaN]]
    ELSE LET e == Eliminate(A, b)
         IN IF e.singular THEN [status |-> "LinAlgError"]
            ELSE [status |-> "ok", value |-> e.x]

\* _get_mu_ind(r_data, mesh_data, q, s, q_val, k)
_get_mu_ind(r_data, mesh_data, q, s, q_val, k, a_Thole) ==
    LET A == _get_A_thole(r_data, s, q_val, k, a_Thole)
        fields == flatten(summed_fields(mesh_data, q, s))
        mu_ind == linalg_solve_rational(A, fields)
    IN IF mu_ind.status # "ok" THEN mu_ind
       ELSE [status |-> "ok", A |-> A, fields |-> fields,
             value |-> reshape3(mu_ind.value)]

\* Largest number of external charges of a call.
MaxCharges == 2

\* The first n positions of the line of QM atoms, in any order.
Line == <<<<0, 0, 0>>, <<0, 4, 0>>>>

LineGeometries(n) ==
    {xyz \in [1..n -> {Line[i] : i \in 1..n}] : \A i, j \in 1..n : i # j => xyz[i] # xyz[j]}

\* Width, valence charge and scaling factor of an atom: polarizabilities
\* of 64 and of 256.
DipoleAtomStates ==
    {[s |-> FromInt(1), q_val |-> Rat(-8, 15), k |-> FromInt(2)],
     [s |-> FromInt(1), q_val |-> Rat(-64, 15), k |-> FromInt(1)]}

\* External charges, on either side of the second atom of the line.
DipoleSites ==
    {[xyz |-> <<3, 4, 0>>, q |-> 1], [xyz |-> <<3, 4, 0>>, q |-> -2],
     [xyz |-> <<-3, 4, 0>>, q |-> 1]}

MuIndInputs ==
    UNION {{[xyz |-> xyz, s |-> [i \in 1..n |-> a[i].s],
             q_val |-> [i \in 1..n |-> a[i].q_val], k |-> [i \in 1..n |-> a[i].k],
             xyz_mm |-> [m \in 1..Len(e) |-> e[m].xyz],
             charges_mm |-> [m \in 1..Len(e) |-> e[m].q]] :
               xyz \in LineGeometries(n), a \in [1..n -> DipoleAtomStates],
               e \in SeqsUpTo(DipoleSites, MaxCharges) \ {<<>>}} :
           n \in {1, 2}}

InitMuInd ==
    /\ thole_in \in MuIndInputs
    /\ thole_out = NoResult
    /\ EngineUnused
    /\ GPRUnused
    /\ QEqUnused
    /\ EnergyUnused
    /\ ObjectUnused
    /\ AEVUnused
    /\ SanderUnused

\* r_data = self._get_r_data(xyz); mesh_data = self._get_mesh_data(xyz, xyz_mm, s);
\* mu_ind = self._get_mu_ind(r_data, mesh_data, charges_mm, s, q_val, k)
Get_mu_ind ==
    /\ thole_out.status = "none"
    /\ thole_out' =
           _get_mu_ind(_get_r_data(thole_in.xyz),
                       _get_mesh_data(thole_in.xyz, thole_in.xyz_mm, thole_in.s),
                       thole_in.charges_mm, thole_in.s, thole_in.q_val, thole_in.k,
                       FromInt(ResourceFile("species").a_Thole))
    /\ UNCHANGED <<thole_in, engine_vars, gpr_vars, qeq_vars, energy_vars, object_vars,
                 aev_vars, sander_vars>>

NextMuInd == Get_mu_ind

SpecMuInd == InitMuInd /\ [][NextMuInd]_vars

\* The field of the external charges on atom a along axis j, from the
\* positions: sum over m of -(x_m - x_a)_j / r^3 f1(r, 2 s_a) q_m.
FieldOn(a, j) ==
    RSum([m \in 1..Len(thole_in.charges_mm) |->
             LET d == [c \in 1..3 |-> thole_in.xyz_mm[m][c] - thole_in.xyz[a][c]]
                 r == Sqrt(FromInt(Dot(d, d)))
             IN RMul(RMul(RDiv(FromInt(-d[j]), RPow(r, 3)),
                          _get_f1_slater(r, RMul(thole_in.s[a], FromInt(2)))),
                     FromInt(thole_in.charges_mm[m]))])

\* The coupling of axis j of atom a with axis k of atom b, from the
\* positions: 1 / alpha_a for the pair with itself, and otherwise
\* lambda3 delta(j, k) / r^3 - 3 lambda5 (x_a - x_b)_j (x_a - x_b)_k / r^5.
Coupling(a, j, b, k) ==
    IF a = b THEN (IF j = k THEN RDiv(FromInt(1), Polarizability(a)) ELSE FromInt(0))
    ELSE LET d == [c \in 1..3 |-> thole_in.xyz[a][c] - thole_in.xyz[b][c]]
             r == Sqrt(FromInt(Dot(d, d)))
             a_Thole == FromInt(ResourceFile("species").a_Thole)
             au3 == RDiv(RPow(r, 3),
                         Sqrt(RMul(RMul(Polarizability(a), a_Thole),
                                   RMul(Polarizability(b), a_Thole))))
         IN RSub(RMul(_lambda3(au3),
                      RDiv(FromInt(IF j = k THEN 1 ELSE 0), RPow(r, 3))),
                 RMul(_lambda5(au3), RDiv(FromInt(3 * d[j] * d[k]), RPow(r, 5))))

\* C23: the induced-dipole solve uses one index order.  For every atom a
\* and axis j, row and column 3 a + j of the Thole matrix hold the
\* couplings of (a, j), element 3 a + j of the flattened field is the field
\* on atom a along axis j, and the returned dipoles, read as component k of
\* atom b, satisfy the equation of (a, j) with them.
C23_OneIndexOrder ==
    thole_out.status = "ok" =>
        LET N == Len(thole_in.xyz)
            mu == thole_out.value
        IN /\ Len(mu) = N
           /\ \A a \in 1..N, j \in 1..3 :
                  LET R == 3 * (a - 1) + j
                  IN /\ thole_out.fields[R] = FieldOn(a, j)
                     /\ \A b \in 1..N, k \in 1..3 :
                            /\ thole_out.A[R][3 * (b - 1) + k] = Coupling(a, j, b, k)
                            /\ thole_out.A[3 * (b - 1) + k][R] = Coupling(b, k, a, j)
                     /\ RSum([C \in 1..(3 * N) |->
                                 RMul(Coupling(a, j, AtomOf(C), AxisOf(C)),
                                      mu[AtomOf(C)][AxisOf(C)])])
                            = FieldOn(a, j)

\* Two atoms and two external charges: the dipoles of the two atoms
\* differ, and the field on the first atom has two components.
C23_Witness ==
    /\ thole_out.status = "ok"
    /\ Len(thole_in.xyz) = 2
    /\ Len(thole_in.charges_mm) = 2
    /\ thole_out.value[1] # thole_out.value[2]
    /\ thole_out.value[1][1] # FromInt(0)
    /\ thole_out.value[1][2] # FromInt(0)
    /\ thole_out.value[1][1] # thole_out.value[1][2]
    /\ thole_out.fields[1] # thole_out.fields[4]

(***************************************************************************)
(* Engine objects: the constructors and the device and dtype conversions.  *)
(* An object is followed by where its buffers reside and what dtype they   *)
(* have; the values of the buffers are those of EMLE_init.  A module is    *)
(* followed by its device, its dtype, whether the forward hook of          *)
(* ANI2xEMLE.__init__ is registered on its AEV computer and what the _aev  *)
(* attribute of that computer holds ("none": no such attribute).           *)
(***************************************************************************)
\* An argument is a Python value with its type.
None == [type |-> "NoneType", value |-> "None"]

\* An attribute that holds no module
NoModule ==
    [present |-> FALSE, device |-> "none", dtype |-> "none", hooked |-> FALSE,
     _aev |-> "none"]

\* torchani.models.ANI2x(periodic_table_index=True).to(device): a new
\* float32 model, no forward hook registered on its AEV computer.
ANI2x(device) ==
    [present |-> TRUE, device |-> device, dtype |-> "float32", hooked |-> FALSE,
     _aev |-> "none"]

\* module.cuda(), module.cpu(), module.to(device) of a torch module
Moved(m, device) == IF m.present THEN [m EXCEPT !.device = device] ELSE m

\* module.double(), module.float() of a torch module
Cast(m, dtype) == IF m.present THEN [m EXCEPT !.dtype = dtype] ELSE m

\* EMLE.__init__(alpha_mode, device, dtype, create_aev_calculator), the
\* flag a bool: what the call raises or the object it initialises, and the
\* effects it had outside the object, in order.
EMLE_new(mode_arg, device, dtype, create_aev_calculator) ==
    LET fetched == <<"_fetch_resources">>
        dev == IF device = None THEN "cpu" ELSE device.value
        dt == IF dtype = None THEN "float32" ELSE dtype.value
    IN IF mode_arg.type # "str"
       THEN [status |-> "TypeError", effects |-> fetched]
       ELSE IF mode_arg.value \notin {"species", "reference"}
       THEN [status |-> "ValueError", effects |-> fetched]
       ELSE IF device # None /\ device.type # "torch.device"
       THEN [status |-> "TypeError", effects |-> fetched]
       ELSE IF dtype # None /\ dtype.type # "torch.dtype"
       THEN [status |-> "TypeError", effects |-> fetched]
       ELSE [status |-> "ok",
             effects |-> fetched
                         \o (IF create_aev_calculator THEN <<"ANI2x">> ELSE <<>>)
                         \o <<"loadmat">>,
             object |-> [class |-> "EMLE",
                         _alpha_mode |-> mode_arg.value,
                         _device |-> dev,
                         buffers |-> [device |-> dev, dtype |-> dt],
                         lookup |-> [_species_map |-> "int64", _aev_mask |-> "bool",
                                     _n_ref |-> "int64"],
                         _aev_computer |-> IF create_aev_calculator
                                           THEN ANI2x(dev) ELSE NoModule,
                         _ani2x |-> NoModule,
                         _atomic_numbers |-> "none"]]

\* ANI2xEMLE.__init__(alpha_mode, atomic_numbers=..., device, dtype) with
\* no model_index and no ani2x_model; with_numbers tells whether an int64
\* tensor of atomic numbers is passed.
ANI2xEMLE_new(mode_arg, with_numbers, device, dtype) ==
    IF device # None /\ device.type # "torch.device"
    THEN [status |-> "TypeError", effects |-> <<>>]
    ELSE IF dtype # None /\ dtype.type # "torch.dtype"
    THEN [status |-> "TypeError", effects |-> <<>>]
    ELSE LET dev == IF device = None THEN "cpu" ELSE device.value
             dt == IF dtype = None THEN "float32" ELSE dtype.value
             base == EMLE_new(mode_arg,
                              [type |-> "torch.device", value |-> dev],
                              [type |-> "torch.dtype", value |-> dt], FALSE)
         IN IF base.status # "ok" THEN base
            ELSE [status |-> "ok",
                  effects |-> base.effects \o <<"ANI2x">>,
                  object |-> [base.object EXCEPT
                                 !.class = "ANI2xEMLE",
                                 !._ani2x = [ANI2x(dev) EXCEPT
                                                !.dtype = IF dt = "float64"
                                                          THEN "float64" ELSE @,
                                                !._aev = "empty",
                                                !.hooked = TRUE],
                                 !._atomic_numbers = IF with_numbers THEN dev ELSE "none"]]

\* EMLE.cuda()
EMLE_cuda(self) ==
    [self EXCEPT !._aev_computer = Moved(@, "cuda:0"),
                 !.buffers.device = "cuda:0",
                 !._device = "cuda:0"]

\* EMLE.cpu()
EMLE_cpu(self) ==
    [self EXCEPT !._aev_computer = Moved(@, "cpu"),
                 !.buffers.device = "cpu",
                 !._device = "cpu"]

\* EMLE.double()
EMLE_double(self) ==
    [self EXCEPT !._aev_computer = Cast(@, "float64"),
                 !.buffers.dtype = "float64"]

\* EMLE.float()
EMLE_float(self) ==
    [self EXCEPT !._aev_computer = Cast(@, "float32"),
                 !.buffers.dtype = "float32"]

\* ANI2xEMLE.cuda()
ANI2xEMLE_cuda(self) ==
    [EMLE_cuda(self) EXCEPT
        !._ani2x = Moved(@, "cuda:0"),
        !._atomic_numbers = IF self._atomic_numbers # "none" THEN "cuda:0" ELSE @]

\* ANI2xEMLE.cpu()
ANI2xEMLE_cpu(self) ==
    [EMLE_cpu(self) EXCEPT
        !._ani2x = Moved(@, "cpu"),
        !._atomic_numbers = IF self._atomic_numbers # "none" THEN "cpu" ELSE @]

\* ANI2xEMLE.double()
ANI2xEMLE_double(self) == [EMLE_double(self) EXCEPT !._ani2x = Cast(@, "float64")]

\* ANI2xEMLE.float(): the ANI2x model is replaced by a new one; the attempt
\* to optimise it for the atomic numbers raises inside try/except and
\* leaves it as it is.
ANI2xEMLE_float(self) == [EMLE_float(self) EXCEPT !._ani2x = ANI2x(self._device)]

\* module.to(*args, **kwargs) of a torch module with one argument: a device
\* moves it, a dtype casts its floating-point parameters.
Module_to(m, arg) ==
    IF arg.type = "torch.dtype" THEN Cast(m, arg.value) ELSE Moved(m, arg.value)

\* tensor.to(*args, **kwargs) on the dtype of a tensor: a dtype argument
\* casts a tensor of any dtype.
Tensor_to(dtype, arg) == IF arg.type = "torch.dtype" THEN arg.value ELSE dtype

\* EMLE.to(*args, **kwargs) with one argument: every buffer is converted
\* with it; _device is set from a torch.device among the positional
\* arguments.
EMLE_to(self, arg) ==
    [self EXCEPT
        !._aev_computer = Module_to(@, arg),
        !.buffers = IF arg.type = "torch.dtype" THEN [@ EXCEPT !.dtype = arg.value]
                    ELSE [@ EXCEPT !.device = arg.value],
        !.lookup = [b \in DOMAIN @ |-> Tensor_to(@[b], arg)],
        !._device = IF arg.passed = "positional" /\ arg.type = "torch.device"
                    THEN arg.value ELSE @]

\* ANI2xEMLE.to(*args, **kwargs)
ANI2xEMLE_to(self, arg) == [EMLE_to(self, arg) EXCEPT !._ani2x = Module_to(@, arg)]

\* self.to(arg) by the class of self
moved_to(self, arg) ==
    IF self.class = "EMLE" THEN EMLE_to(self, arg) ELSE ANI2xEMLE_to(self, arg)

\* ANI2xEMLE.forward with a non-empty list of external charges, the inputs
\* on the device of the buffers: what the call raises or that it returns
\* its three energies, and the object after it.  The forward hook stores
\* the features of the call in _aev when the ANI2x model is run.
ANI2xEMLE_call(self) ==
    LET ran == [self EXCEPT !._ani2x._aev = IF self._ani2x.hooked THEN "features" ELSE @]
    IN IF self._ani2x.device # self.buffers.device
       THEN [status |-> "RuntimeError", object |-> self]
       ELSE IF ran._ani2x._aev = "none"
       THEN [status |-> "AttributeError", object |-> ran]
       ELSE IF self.lookup._aev_mask # "bool"
       THEN [status |-> "IndexError", object |-> ran]
       ELSE IF self.lookup._n_ref # "int64"
       THEN [status |-> "TypeError", object |-> ran]
       ELSE [status |-> "ok", object |-> ran]

\* self.<method>() by the class of self: the fields of self after the call.
\* Every one of the methods returns self.
converted(self, method) ==
    IF self.class = "EMLE"
    THEN CASE method = "cuda" -> EMLE_cuda(self)
           [] method = "cpu" -> EMLE_cpu(self)
           [] method = "double" -> EMLE_double(self)
           [] method = "float" -> EMLE_float(self)
    ELSE CASE method = "cuda" -> ANI2xEMLE_cuda(self)
           [] method = "cpu" -> ANI2xEMLE_cpu(self)
           [] method = "double" -> ANI2xEMLE_double(self)
           [] method = "float" -> ANI2xEMLE_float(self)

Conversions == {"cuda", "cpu", "double", "float"}

AlphaModeArgs ==
    {[type |-> "str", value |-> "species"],
     [type |-> "str", value |-> "reference"],
     [type |-> "str", value |-> "atom"],
     [type |-> "int", value |-> "1"]}

DeviceArgs ==
    {None,
     [type |-> "torch.device", value |-> "cuda:0"],
     [type |-> "str", value |-> "cuda:0"]}

DtypeArgs ==
    {None,
     [type |-> "torch.dtype", value |-> "float64"],
     [type |-> "str", value |-> "float64"]}

\* The argument of to(): a device as a torch.device or as a string, passed
\* positionally or as device=..., or a floating-point dtype.
ToArgs ==
    {[passed |-> p, type |-> t, value |-> d] :
        p \in {"positional", "keyword"}, t \in {"torch.device", "str"},
        d \in {"cpu", "cuda:0"}}
    \cup {[passed |-> "positional", type |-> "torch.dtype", value |-> d] :
              d \in {"float32", "float64"}}

InitObject ==
    /\ heap = <<>>
    /\ last = NoResult
    /\ EngineUnused
    /\ GPRUnused
    /\ QEqUnused
    /\ TholeUnused
    /\ EnergyUnused
    /\ AEVUnused
    /\ SanderUnused

\* The first object is constructed, or the constructor raises.
New ==
    /\ last = NoResult
    /\ \E class \in {"EMLE", "ANI2xEMLE"}, alpha \in AlphaModeArgs,
          device \in DeviceArgs, dtype \in DtypeArgs, flag \in BOOLEAN :
          LET r == IF class = "EMLE" THEN EMLE_new(alpha, device, dtype, flag)
                   ELSE ANI2xEMLE_new(alpha, flag, device, dtype)
          IN /\ heap' = IF r.status = "ok" THEN <<r.object>> ELSE <<>>
             /\ last' = [method |-> "__init__", class |-> class, self |-> 0,
                         alpha_mode |-> alpha, device |-> device, dtype |-> dtype,
                         before |-> heap, status |-> r.status,
                         effects |-> r.effects,
                         result |-> IF r.status = "ok" THEN 1 ELSE 0]
    /\ UNCHANGED <<engine_vars, gpr_vars, qeq_vars, thole_vars, energy_vars, aev_vars,
                   sander_vars>>

\* A conversion method is called on an object; it returns self.
Convert ==
    /\ \E o \in DOMAIN heap, method \in Conversions :
          /\ heap' = [heap EXCEPT ![o] = converted(heap[o], method)]
          /\ last' = [method |-> method, class |-> heap[o].class, self |-> o,
                      alpha_mode |-> None, device |-> None, dtype |-> None,
                      before |-> heap, status |-> "ok", effects |-> <<>>,
                      result |-> o]
    /\ UNCHANGED <<engine_vars, gpr_vars, qeq_vars, thole_vars, energy_vars, aev_vars,
                   sander_vars>>

\* to() is called on an object; it returns self.
To ==
    /\ \E o \in DOMAIN heap, arg \in ToArgs :
          /\ heap' = [heap EXCEPT ![o] = moved_to(heap[o], arg)]
          /\ last' = [method |-> "to", class |-> heap[o].class, self |-> o,
                      alpha_mode |-> None, device |-> None, dtype |-> None,
                      before |-> heap, status |-> "ok", effects |-> <<>>,
                      result |-> o]
    /\ UNCHANGED <<engine_vars, gpr_vars, qeq_vars, thole_vars, energy_vars, aev_vars,
                   sander_vars>>

\* forward is called on an ANI2xEMLE with external charges.
Call_forward ==
    /\ \E o \in DOMAIN heap :
          /\ heap[o].class = "ANI2xEMLE"
          /\ LET r == ANI2xEMLE_call(heap[o])
             IN /\ heap' = [heap EXCEPT ![o] = r.object]
                /\ last' = [method |-> "forward", class |-> heap[o].class, self |-> o,
                            alpha_mode |-> None, device |-> None, dtype |-> None,
                            before |-> heap, status |-> r.status, effects |-> <<>>,
                            result |-> IF r.status = "ok" THEN 3 ELSE 0]
    /\ UNCHANGED <<engine_vars, gpr_vars, qeq_vars, thole_vars, energy_vars, aev_vars,
                   sander_vars>>

NextObject == New \/ Convert \/ To \/ Call_forward

SpecObject == InitObject /\ [][NextObject]_vars

\* C19: cpu(), cuda(), double() and float() each return a copy of the
\* model: the object returned is another object than the one the method was
\* called on, and that one keeps the device and the floating-point dtype
\* it had before the call.
C19_ConversionsReturnCopy ==
    (last.status = "ok" /\ last.method \in Conversions) =>
        /\ last.result # last.self
        /\ heap[last.self]._device = last.before[last.self]._device
        /\ heap[last.self].buffers = last.before[last.self].buffers

\* C20: a constructor call with an invalid alpha_mode (the other arguments
\* being valid) raises TypeError when alpha_mode is no string and
\* ValueError when it is another string than 'species' and 'reference',
\* having fetched no resource and loaded no file, and no object exists.
C20_InvalidAlphaModeFailsFast ==
    (/\ last.status # "none"
     /\ last.method = "__init__"
     /\ last.alpha_mode \notin {[type |-> "str", value |-> "species"],
                                [type |-> "str", value |-> "reference"]}
     /\ last.device.type \in {"NoneType", "torch.device"}
     /\ last.dtype.type \in {"NoneType", "torch.dtype"}) =>
        /\ last.status = IF last.alpha_mode.type # "str"
                         THEN "TypeError" ELSE "ValueError"
        /\ last.effects = <<>>
        /\ heap = <<>>

\* C24: after any sequence of to(), cpu(), cuda(), double() and float()
\* calls on an ANI2xEMLE, the AEV computer of its ANI2x model has the
\* forward hook registered and an _aev attribute, and a forward call with
\* external charges gets the features of that call and returns its three
\* energies.
C24_HookSurvivesConversions ==
    \A o \in DOMAIN heap :
        heap[o].class = "ANI2xEMLE" =>
            /\ heap[o]._ani2x.hooked
            /\ heap[o]._ani2x._aev # "none"
            /\ (last.method = "forward" /\ last.self = o) =>
                   /\ last.status = "ok"
                   /\ last.result = 3
                   /\ heap[o]._ani2x._aev = "features"

\* C25: after any sequence of to(), cpu() and cuda() calls, _device is the
\* device the buffers reside on, whatever form the device argument took.
C25_DeviceAttributeFollowsBuffers ==
    \A o \in DOMAIN heap : heap[o]._device = heap[o].buffers.device

\* C26: after any sequence of to(), double() and float() calls,
\* _species_map and _n_ref are integer tensors and _aev_mask is a bool
\* tensor; only the floating-point buffers change dtype.
C26_LookupBuffersKeepDtype ==
    \A o \in DOMAIN heap :
        /\ heap[o].lookup._species_map = "int64"
        /\ heap[o].lookup._n_ref = "int64"
        /\ heap[o].lookup._aev_mask = "bool"
(***************************************************************************)
(* SanderCalculator and the sander module it drives.  sander holds the     *)
(* sessions that are set up, as a sequence: the library has room for one,  *)
(* and sander.setup raises when one is set up already.  A calculator keeps *)
(* no reference to its topology; constructed_with records it as history.   *)
(***************************************************************************)
\* sander.is_setup()
is_setup(s) == Len(s) > 0

\* sander.cleanup()
cleanup(s) == <<>>

\* sander.setup(parm7, positions, box, input)
setup(s, parm7, positions, box, input) ==
    IF is_setup(s) THEN [status |-> "RuntimeError", sander |-> s]
    ELSE [status |-> "ok",
          sander |-> <<[parm7 |-> parm7, positions |-> positions, box |-> box,
                        input |-> input]>>]

\* SanderCalculator._get_box(atoms)
_get_box(atoms) == IF ~atoms.pbc THEN "None" ELSE "cellpar"

\* A constructor that sets up its session without looking for one that is
\* set up.
SanderCalculator_new_no_cleanup(s, log, parm7, atoms, is_gas) ==
    LET r == setup(s, parm7, atoms.positions, _get_box(atoms),
                   IF is_gas THEN "gas_input" ELSE "pme_input")
    IN [status |-> r.status, sander |-> r.sander,
        log |-> Append(log, [call |-> "setup", is_setup |-> is_setup(s)]),
        object |-> [constructed_with |-> parm7, atoms |-> atoms, results |-> NoResult]]

\* SanderCalculator.__init__(parm7, atoms, is_gas): the state of sander
\* after it, the calls it made and the object it initialised.
SanderCalculator_new(s, log, parm7, atoms, is_gas) ==
    LET cleaned == IF is_setup(s) THEN cleanup(s) ELSE s
        log1 == IF is_setup(s)
                THEN Append(log, [call |-> "cleanup", is_setup |-> TRUE])
                ELSE log
        r == setup(cleaned, parm7, atoms.positions, _get_box(atoms),
                   IF is_gas THEN "gas_input" ELSE "pme_input")
    IN [status |-> r.status, sander |-> r.sander,
        log |-> Append(log1, [call |-> "setup", is_setup |-> is_setup(cleaned)]),
        object |-> [constructed_with |-> parm7, atoms |-> atoms, results |-> NoResult]]

\* SanderCalculator.calculate(atoms): the positions and the box are handed
\* to the session that is set up, and its energy and forces are the
\* results; the energy is kept as the term of what it was computed from.
SanderCalculator_calculate(self, s, atoms) ==
    IF ~is_setup(s) THEN [status |-> "RuntimeError", sander |-> s, object |-> self]
    ELSE LET box == _get_box(atoms)
             session == [s[1] EXCEPT !.positions = atoms.positions,
                                     !.box = IF box # "None" THEN box ELSE @]
         IN [status |-> "ok", sander |-> <<session>>,
             object |-> [self EXCEPT
                            !.atoms = atoms,
                            !.results = [status |-> "ok",
                                         energy |-> [parm7 |-> session.parm7,
                                                     positions |-> session.positions,
                                                     input |-> session.input]]]]

\* Largest number of calculators constructed.
MaxCalculators == 2

Topologies == {"ligand.parm7", "complex.parm7"}

InitSander ==
    /\ sander = <<>>
    /\ calculators = <<>>
    /\ sander_log = <<>>
    /\ EngineUnused
    /\ GPRUnused
    /\ QEqUnused
    /\ TholeUnused
    /\ EnergyUnused
    /\ ObjectUnused
    /\ AEVUnused

\* calc = SanderCalculator(parm7, atoms, is_gas)
New_SanderCalculator ==
    /\ Len(calculators) < MaxCalculators
    /\ \E parm7 \in Topologies, pbc \in BOOLEAN, is_gas \in BOOLEAN :
          LET r == SanderCalculator_new(sander, sander_log, parm7,
                                        [positions |-> 0, pbc |-> pbc], is_gas)
          IN /\ sander' = r.sander
             /\ sander_log' = r.log
             /\ calculators' = IF r.status = "ok" THEN Append(calculators, r.object)
                               ELSE calculators
    /\ UNCHANGED <<engine_vars, gpr_vars, qeq_vars, thole_vars, energy_vars, object_vars,
                   aev_vars>>

\* calc.calculate(atoms), the atoms of the calculator at new positions
Calculate ==
    /\ \E c \in DOMAIN calculators, positions \in {1, 2} :
          LET r == SanderCalculator_calculate(
                       calculators[c], sander,
                       [calculators[c].atoms EXCEPT !.positions = positions])
          IN /\ sander' = r.sander
             /\ calculators' = [calculators EXCEPT ![c] = r.object]
    /\ UNCHANGED <<sander_log, engine_vars, gpr_vars, qeq_vars, thole_vars, energy_vars,
                   object_vars, aev_vars>>

NextSander == New_SanderCalculator \/ Calculate

SpecSander == InitSander /\ [][NextSander]_vars

\* C28: across any sequence of constructions, sander.setup is never called
\* while a session is set up - one that exists is cleaned up first - and
\* at most one session exists at any time.
C28_OneSessionAtATime ==
    /\ Len(sander) <= 1
    /\ \A i \in 1..Len(sander_log) :
           sander_log[i].call = "setup" => ~sander_log[i].is_setup

\* A second calculator was constructed while the session of the first was
\* set up: the session was cleaned up and the new one set up.
C28_Witness ==
    /\ Len(calculators) = 2
    /\ Len(sander) = 1
    /\ sander[1].parm7 = calculators[2].constructed_with
    /\ calculators[1].constructed_with # calculators[2].constructed_with
    /\ \E i \in 1..(Len(sander_log) - 1) :
           sander_log[i].call = "cleanup" /\ sander_log[i + 1].call = "setup"

\* C29: calculate() evaluates energy and forces against the topology its
\* calculator was constructed with, also when other calculators were
\* constructed between its construction and the call.
C29_CalculateOnOwnTopology ==
    \A c \in DOMAIN calculators :
        calculators[c].results.status = "ok" =>
            calculators[c].results.energy.parm7 = calculators[c].constructed_with

(***************************************************************************)
(* The preparation of the features: the mask and the normalisation in      *)
(* EMLE.forward, ANI2xEMLE.forward and EMLEAEVComputer.forward, and        *)
(* AEVCalculator.calculate_aev of the training.  A normalised vector       *)
(* v / norm is kept as v with the square n2 of the norm it was divided by, *)
(* in the units of UnitNorm2: its own norm is 1 exactly when               *)
(* v . v = UnitNorm2 * n2.  Positions are whole multiples of 17 Bohr and   *)
(* ANGSTROM_TO_BOHR is 17 / 9, so that they are whole numbers of Angstrom. *)
(***************************************************************************)
ANGSTROM_TO_BOHR == Rat(17, 9)

\* A mask that was not given (mask=None), and a mask tensor.
NoMask == [present |-> FALSE, value |-> <<>>]

Mask(m) == [present |-> TRUE, value |-> m]

\* EMLEAEVComputer.__init__(num_species, mask=mask): _zid_map is the
\* identity on the species ids with -1 as its last entry, which the id -1
\* of a padding atom indexes.
EMLEAEVComputer_new(num_species, mask, external) ==
    [_external |-> external, _mask |-> mask, _aev |-> None,
     _zid_map |-> [i \in 1..(num_species + 1) |-> IF i <= num_species THEN i - 1 ELSE -1]]

\* self._zid_map[zid] for one id: a negative index counts from the end
zid_map_at(self, id) ==
    IF id >= 0 THEN self._zid_map[id + 1] ELSE self._zid_map[Len(self._zid_map) + 1 + id]

\* self._apply_mask(aev) on the features of one atom
_apply_mask(self, v) == IF self._mask.present THEN Select(v, self._mask.value) ELSE v

\* EMLEAEVComputer.forward(zid, xyz): the features of the batch are divided
\* by their norm, and the mask is applied to the quotient.
EMLEAEVComputer_forward(self, zid, xyz) ==
    IF self._external
    THEN [status |-> "TypeError"]
    ELSE LET zid_aev == [b \in 1..Len(zid) |->
                            [i \in 1..Len(zid[b]) |-> zid_map_at(self, zid[b][i])]]
             _aev == [b \in 1..Len(zid) |-> aev_computer(zid_aev[b], xyz[b])]
             norm2 == [b \in 1..Len(zid) |->
                          [i \in 1..Len(zid[b]) |->
                              Rat(Dot(_aev[b][i], _aev[b][i]), UnitNorm2)]]
         IN [status |-> "ok",
             value |-> [b \in 1..Len(zid) |->
                           [i \in 1..Len(zid[b]) |->
                               [v |-> _apply_mask(self, _aev[b][i]),
                                n2 |-> norm2[b][i]]]]]

\* A value of Python that a for loop or zip may be asked to run over: a
\* tensor of some rank, or an element of a sequence of numbers (rank 0).
tensor(rank, data) == [rank |-> rank, data |-> data]

\* xyz_mol / ANGSTROM_TO_BOHR
to_angstrom(xyz_mol) ==
    [i \in 1..Len(xyz_mol) |->
        [c \in 1..3 |-> RDiv(FromInt(xyz_mol[i][c]), ANGSTROM_TO_BOHR)[1]]]

\* AEVCalculator._get_aev(zid, xyz) on a calculator with the attributes
\* attrs: the padding is cut off and the AEV computer is read from
\* self.aev_computer.
_get_aev(attrs, zid, xyz) ==
    LET natoms == Cardinality({i \in 1..Len(zid) : zid[i] > -1})
    IN IF "aev_computer" \notin attrs THEN [status |-> "AttributeError"]
       ELSE [status |-> "ok",
             value |-> aev_computer(SubSeq(zid, 1, natoms), SubSeq(xyz, 1, natoms))]

\* pad_to_max of the training utilities: a list of arrays of per-atom
\* features is stacked, the shorter ones filled up with zero rows.
pad_to_max(arrays) ==
    LET longest == CHOOSE n \in {Len(arrays[m]) : m \in 1..Len(arrays)} :
                       \A m \in 1..Len(arrays) : Len(arrays[m]) <= n
    IN [m \in 1..Len(arrays) |->
           [i \in 1..longest |->
               IF i <= Len(arrays[m]) THEN arrays[m][i] ELSE <<0, 0, 0>>]]

\* The table _species_id of calculate_aev: the position of every atomic
\* number of species, 0 for the numbers not in it, and -1 at index 0.
species_id_table(species_list) ==
    LET top == CHOOSE n \in {species_list[i] : i \in 1..Len(species_list)} :
                   \A i \in 1..Len(species_list) : species_list[i] <= n
    IN [k \in 0..top |->
           IF k = 0 THEN -1
           ELSE IF \E i \in 1..Len(species_list) : species_list[i] = k
           THEN (CHOOSE i \in 1..Len(species_list) :
                     /\ species_list[i] = k
                     /\ \A j \in (i + 1)..Len(species_list) : species_list[j] # k) - 1
           ELSE 0]

\* The features of the molecules of a batch z as calculate_aev goes on to
\* compute them once it runs over z: _get_aev per molecule, pad_to_max,
\* the mask of the features that are not zero everywhere, the mask applied
\* and the masked features divided by their norm.
batch_aev(attrs, z, xyz, species_list) ==
    LET _species_id == species_id_table(species_list)
        per_mol == [m \in 1..Len(z) |->
                       _get_aev(attrs, [i \in 1..Len(z[m]) |-> _species_id[z[m][i]]],
                                to_angstrom(xyz[m]))]
    IN IF \E m \in 1..Len(z) : per_mol[m].status # "ok"
       THEN [status |-> "AttributeError"]
       ELSE LET aev_full == pad_to_max([m \in 1..Len(z) |-> per_mol[m].value])
                aev_mask == [f \in 1..3 |->
                                \E m \in 1..Len(aev_full) :
                                    \E i \in 1..Len(aev_full[m]) : aev_full[m][i][f] # 0]
            IN [status |-> "ok",
                value |-> [m \in 1..Len(aev_full) |->
                              [i \in 1..Len(aev_full[m]) |->
                                  LET v == Select(aev_full[m][i], aev_mask)
                                  IN [v |-> v, n2 |-> Rat(Dot(v, v), UnitNorm2)]]]]

\* AEVCalculator.calculate_aev(z, xyz, species): the loop
\* "for i, z in enumerate(species)" that fills _species_id binds the name
\* z, so that after it z is the last element of species (the batch, were
\* species empty, but max(species) raises then); zip(z, xyz) runs over
\* that value.
calculate_aev(attrs, z, xyz, species_list) ==
    IF Len(species_list) = 0 THEN [status |-> "ValueError"]
    ELSE LET z_after_loop == tensor(0, species_list[Len(species_list)])
         IN IF z_after_loop.rank = 0 THEN [status |-> "TypeError"]
            ELSE batch_aev(attrs, z_after_loop.data, xyz, species_list)

\* Largest number of molecules of a batch.
MaxMolecules == 2

\* Molecules of up to MaxAtoms atoms of H and O, padded with the atomic
\* number 0 to MaxAtoms.
PaddedMolecules ==
    {mol \in [1..MaxAtoms -> {0, 1, 8}] :
        /\ mol[1] # 0
        /\ \A i \in 1..(MaxAtoms - 1) : mol[i] = 0 => mol[i + 1] = 0}

FeatureMasks == {NoMask, Mask(<<TRUE, TRUE, TRUE>>), Mask(<<TRUE, TRUE, FALSE>>)}

AEVInputs ==
    {[z |-> z, xyz |-> [m \in 1..Len(z) |-> [i \in 1..MaxAtoms |-> <<17 * (i - 1) * d, 0, 0>>]],
      mask |-> mask, species |-> sp,
      attrs |-> {"_device", "_model", "_aev_computer"}] :
        z \in SeqsUpTo(PaddedMolecules, MaxMolecules), d \in {1, 2},
        mask \in FeatureMasks, sp \in {<<1, 6, 7, 8, 16>>, <<1, 8>>}}

InitAEV ==
    /\ aev_in \in AEVInputs
    /\ aev_out = NoResult
    /\ EngineUnused
    /\ GPRUnused
    /\ QEqUnused
    /\ TholeUnused
    /\ EnergyUnused
    /\ ObjectUnused
    /\ SanderUnused

\* The atoms of the first molecule of the batch, its padding left out,
\* with their species ids and their positions in Angstrom.
FirstMolecule ==
    LET n == Cardinality({i \in 1..MaxAtoms : aev_in.z[1][i] # 0})
    IN [zid |-> [i \in 1..n |-> species_map[aev_in.z[1][i] + 1]],
        xyz |-> SubSeq(to_angstrom(aev_in.xyz[1]), 1, n)]

\* The species ids of the batch, -1 for the padding.
BatchZid ==
    [m \in 1..Len(aev_in.z) |-> [i \in 1..MaxAtoms |-> species_map[aev_in.z[m][i] + 1]]]

\* EMLE.forward: aev = self._aev_computer((zid, xyz))[1][0][:, self._aev_mask];
\* aev = aev / norm(aev)
Features_EMLE ==
    /\ aev_out.status = "none"
    /\ aev_in.mask.present
    /\ aev_out' = [status |-> "ok", path |-> "EMLE.forward",
                   value |-> <<normalised_aev([_aev_mask |-> aev_in.mask.value],
                                              aev_computer(FirstMolecule.zid,
                                                           FirstMolecule.xyz))>>]
    /\ UNCHANGED <<aev_in, engine_vars, gpr_vars, qeq_vars, thole_vars, energy_vars,
                   object_vars, sander_vars>>

\* ANI2xEMLE.forward: aev = self._ani2x.aev_computer._aev[:, self._aev_mask];
\* aev = aev / norm(aev), on the features the hook stored
Features_ANI2xEMLE ==
    /\ aev_out.status = "none"
    /\ aev_in.mask.present
    /\ aev_out' = [status |-> "ok", path |-> "ANI2xEMLE.forward",
                   value |-> <<normalised_aev([_aev_mask |-> aev_in.mask.value],
                                              hook(EmptyTensor,
                                                   aev_computer(FirstMolecule.zid,
                                                                FirstMolecule.xyz)))>>]
    /\ UNCHANGED <<aev_in, engine_vars, gpr_vars, qeq_vars, thole_vars, energy_vars,
                   object_vars, sander_vars>>

\* EMLEAEVComputer(mask=mask)(zid, xyz) on the batch
Features_EMLEAEVComputer ==
    /\ aev_out.status = "none"
    /\ \E external \in BOOLEAN :
          aev_out' = EMLEAEVComputer_forward(
                         EMLEAEVComputer_new(NSpecies, aev_in.mask, external),
                         BatchZid,
                         [m \in 1..Len(aev_in.z) |-> to_angstrom(aev_in.xyz[m])])
                     @@ [path |-> "EMLEAEVComputer.forward"]
    /\ UNCHANGED <<aev_in, engine_vars, gpr_vars, qeq_vars, thole_vars, energy_vars,
                   object_vars, sander_vars>>

\* AEVCalculator.calculate_aev(z, xyz, species) on the batch
Calculate_aev ==
    /\ aev_out.status = "none"
    /\ aev_out' = calculate_aev(aev_in.attrs, aev_in.z, aev_in.xyz, aev_in.species)
                  @@ [path |-> "AEVCalculator.calculate_aev"]
    /\ UNCHANGED <<aev_in, engine_vars, gpr_vars, qeq_vars, thole_vars, energy_vars,
                   object_vars, sander_vars>>

NextAEV ==
    \/ Features_EMLE
    \/ Features_ANI2xEMLE
    \/ Features_EMLEAEVComputer
    \/ Calculate_aev

SpecAEV == InitAEV /\ [][NextAEV]_vars

\* C27: in every path that prepares features the mask is applied before
\* the normalisation: the vector of every atom that is handed on has norm
\* 1 over the features the mask retains.
C27_MaskBeforeNormalisation ==
    aev_out.status = "ok" =>
        \A m \in 1..Len(aev_out.value) :
            \A i \in 1..Len(aev_out.value[m]) :
                LET f == aev_out.value[m][i]
                IN f.n2 # FromInt(0) => Rat(Dot(f.v, f.v), UnitNorm2) = f.n2

\* C30: calculate_aev(z, xyz, species) returns one block of per-atom
\* features per molecule of z, in the order of z, computed with the
\* position of the atomic number of every atom in species as its species
\* id and -1 for the padding atoms.
C30_FeaturesOfEveryMolecule ==
    (aev_out.status # "none" /\ aev_out.path = "AEVCalculator.calculate_aev") =>
        /\ aev_out.status = "ok"
        /\ Len(aev_out.value) = Len(aev_in.z)
        /\ aev_out.value =
               batch_aev({"aev_computer"}, aev_in.z, aev_in.xyz, aev_in.species).value

====
